---------------------------- MODULE Spec2Model ----------------------------
(***************************************************************************)
(* Model of the APSC 142 exam generator (exam-generator/main.py and the    *)
(* modules under exam-generator/src).                                      *)
(*                                                                         *)
(* Quality scores are floats on a 0-10 scale in the code; the model keeps  *)
(* them in tenths (7.0 is 70).  Relevance scores are exact rationals       *)
(* <<numerator, denominator>>; floating-point rounding is not modelled.    *)
(* Dates are day numbers counted from 2000-01-01 (day 0).                  *)
(***************************************************************************)
EXTENDS Integers, Sequences, FiniteSets, TLC

(***************************************************************************)
(* Bounds of the model.                                                    *)
(***************************************************************************)
MaxQuestions == 3
MaxSections == 2
MaxItemCount == 10
MaxSectionCount == 3

(***************************************************************************)
(* Program constants.                                                      *)
(***************************************************************************)
ApprovalThreshold == 70
DegradedScore == 50
DefaultScore == 70

AllSections == <<"A", "B", "C", "D", "E">>
Texts == {"t1"}
MinScores == {50, 70, 80}
Difficulties == {"medium", "hard"}
Dates == {"2025-01-01"}

VARIABLES
    pc,                      \* position of main(): allocate, shuffle, loop, evaluate, done, crashed
    args_sections,           \* the section list main() starts from (args.sections)
    num_questions,           \* args.num_questions
    min_score,               \* args.min_score, in tenths
    args_difficulty,         \* args.difficulty
    sections_to_use,         \* main.py sections_to_use
    section_assignments,     \* main.py section_assignments
    shuffle_i,               \* loop index of random.shuffle
    i,                       \* enumerate index of the generation loop (0 before the first iteration)
    question,                \* <<>> for None, <<q>> for the question of the current iteration
    evaluations,             \* history: one record per call of critic.evaluate_question
    all_approved_questions,  \* main.py all_approved_questions
    total_generated,
    total_approved,
    bank,                    \* the question bank file at args.output
    exit_code,               \* -1 while running, else the process exit status
    score_in,                \* arguments of ingest.calculate_relevance_score
    score_out,               \* its components and result
    collection,              \* the records of the vector index (metadata only)
    retrieve_in,             \* arguments of QuestionRetriever.retrieve_style_examples
    index_query,             \* the collection.query calls made: what was asked, what came back
    retrieve_out,            \* the examples returned
    section_stats,           \* get_section_statistics(): <<section, count>> in dict order
    sec_idx,                 \* sections of sections_list[:8] already queried
    all_results,             \* retrieve_style_examples: all_results
    failures,                \* embedding and query calls that failed so far
    critic_in,               \* arguments of the QuestionCritic method under study
    critic_out,              \* its result
    section_examples,        \* main(): the examples retrieved for the current question
    gen_in,                  \* arguments of the ExamGenerator method under study
    gen_out,                 \* its locals and its result
    ingest_in,               \* the runs that fill the vector index, still to do
    ingest_log               \* what each collection.add was asked and what it did

vars == <<pc, args_sections, num_questions, min_score, args_difficulty,
          sections_to_use, section_assignments,
          shuffle_i, i, question, evaluations, all_approved_questions,
          total_generated, total_approved, bank, exit_code,
          score_in, score_out, collection, retrieve_in, index_query, retrieve_out,
          section_stats, sec_idx, all_results, failures, critic_in, critic_out,
          section_examples, gen_in, gen_out, ingest_in, ingest_log>>

allocVars == <<args_sections, num_questions, sections_to_use, section_assignments, shuffle_i>>
loopVars == <<i, question, section_examples, evaluations, all_approved_questions,
              total_generated, total_approved>>
scoreVars == <<score_in, score_out>>
retrieveVars == <<collection, retrieve_in, index_query, retrieve_out>>
diverseVars == <<section_stats, sec_idx, all_results, failures>>
criticVars == <<critic_in, critic_out>>
genVars == <<gen_in, gen_out>>
ingestVars == <<ingest_in, ingest_log>>

Min(a, b) == IF a <= b THEN a ELSE b
Max(a, b) == IF a >= b THEN a ELSE b

(***************************************************************************)
(* Section allocation, main.py lines 76-97.                                *)
(***************************************************************************)
\* sections_to_use[:num_questions] when num_questions < num_sections
TruncateSections(n, sections) ==
    IF n < Len(sections) THEN SubSeq(sections, 1, n) ELSE sections

\* the round robin of the second pass started one section too late
DistributeQuestions_offByOne(n, sections) ==
    LET k == Len(sections)
    IN  sections \o [j \in 1..Max(0, n - k) |-> sections[(j % k) + 1]]

\* first pass: one slot per section; second pass: range(n - k) round robin
DistributeQuestions(n, sections) ==
    LET k == Len(sections)
    IN  sections \o [j \in 1..Max(0, n - k) |-> sections[((j - 1) % k) + 1]]

\* an item of an older bank that still has its exam fields
LegacyItem ==
    [question_number |-> "1", section |-> "A", marks |-> 5, text |-> "old"]

\* an item as an earlier run wrote it: the default-scored question the
\* generator may well produce again
StoredItem ==
    [section |-> "A", text |-> "t1", answer_choices |-> "None", difficulty |-> "medium",
     quality_score |-> DefaultScore, generated_date |-> "2025-01-01"]

\* the bank file as main() may find it
BankFiles ==
    { [kind |-> "absent", items |-> <<>>],
      [kind |-> "list", items |-> <<LegacyItem, StoredItem>>],
      [kind |-> "dict_questions", items |-> <<LegacyItem>>],
      [kind |-> "dict_other", items |-> <<LegacyItem>>],
      [kind |-> "unreadable", items |-> <<>>] }

InitCommon ==
    /\ pc = "allocate"
    /\ section_assignments = <<>>
    /\ shuffle_i = 0
    /\ i = 0
    /\ question = <<>>
    /\ section_examples = <<>>
    /\ evaluations = <<>>
    /\ all_approved_questions = <<>>
    /\ total_generated = 0
    /\ total_approved = 0
    /\ exit_code = -1

\* the scorer and the retriever are not part of this run
InitIdle ==
    /\ score_in = <<>>
    /\ score_out = <<>>
    /\ collection = <<>>
    /\ retrieve_in = <<>>
    /\ index_query = <<>>
    /\ retrieve_out = <<>>
    /\ section_stats = <<>>
    /\ sec_idx = 0
    /\ all_results = <<>>
    /\ failures = 0
    /\ critic_in = <<>>
    /\ critic_out = <<>>
    /\ gen_in = <<>>
    /\ gen_out = <<>>
    /\ ingest_in = <<>>
    /\ ingest_log = <<>>

Init ==
    /\ num_questions \in 0..MaxQuestions
    /\ \E k \in 1..MaxSections : args_sections = SubSeq(AllSections, 1, k)
    /\ sections_to_use = args_sections
    /\ min_score \in MinScores
    /\ args_difficulty \in Difficulties
    /\ bank \in BankFiles
    /\ InitCommon
    /\ InitIdle

\* main.py lines 76-97: truncate, divide, two passes.  num_sections = 0
\* makes num_questions // num_sections raise ZeroDivisionError.
Allocate ==
    /\ pc = "allocate"
    /\ LET truncated == TruncateSections(num_questions, sections_to_use)
       IN  IF Len(truncated) = 0
           THEN /\ pc' = "crashed"
                /\ exit_code' = 1
                /\ sections_to_use' = truncated
                /\ UNCHANGED <<section_assignments, shuffle_i>>
           ELSE /\ sections_to_use' = truncated
                /\ section_assignments' = DistributeQuestions(num_questions, truncated)
                /\ shuffle_i' = Len(section_assignments') - 1
                /\ pc' = "shuffle"
                /\ UNCHANGED exit_code
    /\ UNCHANGED <<args_sections, num_questions, min_score, args_difficulty, bank>>
    /\ UNCHANGED loopVars
    /\ UNCHANGED <<scoreVars, retrieveVars, diverseVars, criticVars, genVars, ingestVars>>

Swap(seq, a, b) == [seq EXCEPT ![a] = seq[b], ![b] = seq[a]]

\* random.shuffle: for i in reversed(range(1, len(x))): j = randbelow(i + 1); swap
ShuffleStep ==
    /\ pc = "shuffle"
    /\ shuffle_i >= 1
    /\ \E j \in 0..shuffle_i :
           section_assignments' = Swap(section_assignments, shuffle_i + 1, j + 1)
    /\ shuffle_i' = shuffle_i - 1
    /\ UNCHANGED <<pc, args_sections, num_questions, min_score, args_difficulty, sections_to_use, bank, exit_code>>
    /\ UNCHANGED loopVars
    /\ UNCHANGED <<scoreVars, retrieveVars, diverseVars, criticVars, genVars, ingestVars>>

ShuffleDone ==
    /\ pc = "shuffle"
    /\ shuffle_i < 1
    /\ pc' = "loop"
    /\ UNCHANGED <<bank, exit_code, min_score, args_difficulty>>
    /\ UNCHANGED allocVars
    /\ UNCHANGED loopVars
    /\ UNCHANGED <<scoreVars, retrieveVars, diverseVars, criticVars, genVars, ingestVars>>

\* main.py lines 110-117: retrieve_style_examples is called unguarded, and it
\* raises over an index without records or when the scan of the index fails
StyleExamplesRaise ==
    /\ pc = "shuffle"
    /\ shuffle_i < 1
    /\ pc' = "crashed"
    /\ exit_code' = 1
    /\ UNCHANGED <<bank, min_score, args_difficulty>>
    /\ UNCHANGED allocVars
    /\ UNCHANGED loopVars
    /\ UNCHANGED <<scoreVars, retrieveVars, diverseVars, criticVars, genVars, ingestVars>>

(***************************************************************************)
(* The generation loop, main.py lines 125-228.                             *)
(***************************************************************************)
\* the generated question carries half of the mark target
GeneratedQuestion_carriesMarks(section, text) ==
    [question_number |-> "", section |-> section, marks |-> 50, text |-> text,
     answer_choices |-> "None", explanation |-> "None"]

\* generator.generate_question: the GeneratedQuestion built from a response
GeneratedQuestion(section, text) ==
    [question_number |-> "", section |-> section, marks |-> 0, text |-> text,
     answer_choices |-> "None", explanation |-> "None"]

(***************************************************************************)
(* QuestionCritic.evaluate_question, critic.py lines 33-124.  A critique   *)
(* is a sequence of tokens: the keywords the patterns look for, numbers    *)
(* (in tenths), "/10", "out of 10", and any other word.                    *)
(***************************************************************************)
MaxTextLen == 4

\* if 0 <= potential_score <= 10, critic.py line 103
MaxScore == 100

Keywords == {"overall", "quality", "score", "rating"}
NumValues == {60, 90, 150}

Token(kind, value) == [kind |-> kind, value |-> value]

Tokens ==
    {Token(k, 0) : k \in Keywords \cup {"slash10", "outof10", "word"}}
        \cup {Token("num", v) : v \in NumValues}

\* "Overall quality score: 8/10"
ExampleCritique ==
    <<Token("overall", 0), Token("quality", 0), Token("score", 0),
      Token("num", 80), Token("slash10", 0)>>

KindAt(text, j) == IF j \in DOMAIN text THEN text[j].kind ELSE ""

\* critic.py lines 92-97: the four patterns, in order
patterns == <<1, 2, 3, 4>>

\* the pattern matches the text from token j on
MatchesAt(pattern, text, j) ==
    CASE pattern = 1 -> /\ KindAt(text, j) \in {"score", "quality", "rating"}
                        /\ KindAt(text, j + 1) = "num"
                        /\ KindAt(text, j + 2) \in {"slash10", "outof10"}
      [] pattern = 2 -> /\ KindAt(text, j) = "num"
                        /\ KindAt(text, j + 1) = "slash10"
      [] pattern = 3 -> /\ KindAt(text, j) \in {"overall", "quality", "score"}
                        /\ KindAt(text, j + 1) = "num"
      [] OTHER -> /\ KindAt(text, j) = "num"
                  /\ KindAt(text, j + 1) \in {"slash10", "outof10"}

\* the number captured by the group, and the tokens the match consumes
Captured(pattern, text, j) == IF pattern \in {1, 3} THEN text[j + 1].value ELSE text[j].value

MatchWidth(pattern) == IF pattern = 1 THEN 3 ELSE 2

\* re.findall(pattern, evaluation_text, re.IGNORECASE): the captured numbers
\* of the non-overlapping matches, in text order
RECURSIVE FindAllFrom(_, _, _)
FindAllFrom(pattern, text, j) ==
    IF j > Len(text) THEN <<>>
    ELSE IF MatchesAt(pattern, text, j)
         THEN <<Captured(pattern, text, j)>>
                  \o FindAllFrom(pattern, text, j + MatchWidth(pattern))
         ELSE FindAllFrom(pattern, text, j + 1)

findall(pattern, text) == FindAllFrom(pattern, text, 1)

\* critic.py lines 99-105: the first match of the first pattern whose first
\* match is in range; the default when no pattern qualifies
RECURSIVE TryPatterns(_, _)
TryPatterns(text, p) ==
    IF p > Len(patterns) THEN DefaultScore
    ELSE LET matches == findall(patterns[p], text)
         IN  IF matches # <<>> /\ 0 <= matches[1] /\ matches[1] <= MaxScore
             THEN matches[1]
             ELSE TryPatterns(text, p + 1)

parse_score(text) == TryPatterns(text, 1)

\* what client.chat.completions.create and the reading of
\* response.choices[0].message.content come to: the call raised, the response
\* could not be read, the content is None, or the content is a text
Response(kind, text, error) == [kind |-> kind, text |-> text, error |-> error]

Errors == {"timeout"}

\* approval does not look at the threshold value itself
Approved_strict(score) == score > ApprovalThreshold

\* critic.py line 113
Approved(score) == score >= ApprovalThreshold

\* the except branch answers like the normal path without a match
DegradedEvaluation_asDefault(q, error) ==
    [score |-> DefaultScore,
     feedback |-> [kind |-> "error", text |-> <<>>, error |-> error],
     approved |-> TRUE,
     question |-> q]

\* critic.py lines 117-124
DegradedEvaluation(q, error) ==
    [score |-> DegradedScore,
     feedback |-> [kind |-> "error", text |-> <<>>, error |-> error],
     approved |-> FALSE,
     question |-> q]

\* critic.py lines 73-124
evaluate_question(q, response) ==
    IF response.kind \in {"raised", "unreadable"}
    THEN DegradedEvaluation(q, response.error)
    ELSE LET score == IF response.kind = "none" THEN DefaultScore
                      ELSE parse_score(response.text)
         IN  [score |-> score,
              feedback |-> [kind |-> IF response.kind = "none" THEN "none" ELSE "critique",
                            text |-> response.text, error |-> ""],
              approved |-> Approved(score),
              question |-> q]

\* the responses followed in the generation loop: a failed call, and critiques
\* saying 6/10, nothing recognisable, and 9/10
LoopResponses ==
    {Response("raised", <<>>, "timeout"),
     Response("text", <<Token("score", 0), Token("num", 60), Token("slash10", 0)>>, ""),
     Response("text", <<Token("word", 0)>>, ""),
     Response("text", <<Token("score", 0), Token("num", 90), Token("slash10", 0)>>, "")}

\* the exam fields are kept on the item
question_dict_keepsExamFields(q, tag, score, today) ==
    [f \in DOMAIN q \cup {"difficulty", "quality_score", "generated_date"} |->
        CASE f = "difficulty" -> tag
          [] f = "quality_score" -> score
          [] f = "generated_date" -> today
          [] OTHER -> q[f]]

\* main.py lines 209-220: the dict appended to all_approved_questions is the
\* dump of the question with three fields attached, the exam fields deleted,
\* and the explanation deleted when there is none
question_dict(q, tag, score, today) ==
    LET attached == [f \in DOMAIN q \cup {"difficulty", "quality_score", "generated_date"} |->
                        CASE f = "difficulty" -> tag
                          [] f = "quality_score" -> score
                          [] f = "generated_date" -> today
                          [] OTHER -> q[f]]
        deleted == {"question_number", "marks"}
                       \cup {f \in {"explanation"} \cap DOMAIN attached :
                                attached[f] \in {"None", ""}}
    IN  [f \in DOMAIN attached \ deleted |-> attached[f]]

\* main.py line 206
MeetsMinimum(score, minimum) == score >= minimum

\* main.py lines 133-181: the examples for one question.  retrieve_by_query
\* answers [] when the embedding or the index query failed, and the run-wide
\* style examples are the fallback; an example stands for a non-empty list
ExamplesForQuestion(embed_ok, query_ok) ==
    IF embed_ok /\ query_ok THEN <<"example">> ELSE <<>>

\* total_generated counted before the `if not question` test
GenerateFails_countsAttempt ==
    /\ pc = "loop"
    /\ i < Len(section_assignments)
    /\ i' = i + 1
    /\ \E embed_ok \in BOOLEAN, query_ok \in BOOLEAN :
           section_examples' = ExamplesForQuestion(embed_ok, query_ok)
    /\ question' = <<>>
    /\ total_generated' = total_generated + 1
    /\ UNCHANGED <<pc, min_score, args_difficulty, bank, exit_code>>
    /\ UNCHANGED allocVars
    /\ UNCHANGED <<evaluations, all_approved_questions, total_approved>>
    /\ UNCHANGED <<scoreVars, retrieveVars, diverseVars, criticVars, genVars, ingestVars>>

\* lines 133-192 of an iteration whose generator.generate_question returned
\* None: `continue`
GenerateFails ==
    /\ pc = "loop"
    /\ i < Len(section_assignments)
    /\ i' = i + 1
    /\ \E embed_ok \in BOOLEAN, query_ok \in BOOLEAN :
           section_examples' = ExamplesForQuestion(embed_ok, query_ok)
    /\ question' = <<>>
    /\ UNCHANGED <<pc, min_score, args_difficulty, bank, exit_code>>
    /\ UNCHANGED allocVars
    /\ UNCHANGED <<evaluations, all_approved_questions, total_generated, total_approved>>
    /\ UNCHANGED <<scoreVars, retrieveVars, diverseVars, criticVars, genVars, ingestVars>>

\* lines 133-195 of an iteration whose generator.generate_question returned
\* a question
GenerateOk ==
    /\ pc = "loop"
    /\ i < Len(section_assignments)
    /\ i' = i + 1
    /\ \E embed_ok \in BOOLEAN, query_ok \in BOOLEAN :
           section_examples' = ExamplesForQuestion(embed_ok, query_ok)
    /\ \E text \in Texts :
           question' = <<GeneratedQuestion(section_assignments[i + 1], text)>>
    /\ total_generated' = total_generated + 1
    /\ pc' = "evaluate"
    /\ UNCHANGED <<min_score, args_difficulty, bank, exit_code>>
    /\ UNCHANGED allocVars
    /\ UNCHANGED <<evaluations, all_approved_questions, total_approved>>
    /\ UNCHANGED <<scoreVars, retrieveVars, diverseVars, criticVars, genVars, ingestVars>>

\* a failed evaluation call ends the run instead of yielding the degraded result
EvaluateQuestion_abortsOnFailure ==
    /\ pc = "evaluate"
    /\ \E response \in LoopResponses, today \in Dates :
         LET evaluation == evaluate_question(question[1], response)
             score == evaluation.score
             keep == MeetsMinimum(score, min_score)
         IN  IF response.kind = "raised"
             THEN /\ pc' = "crashed"
                  /\ exit_code' = 1
                  /\ UNCHANGED <<evaluations, all_approved_questions, total_approved>>
             ELSE /\ evaluations' = Append(evaluations,
                         [iteration |-> i, score |-> score,
                          approved |-> evaluation.approved, accepted |-> keep])
                  /\ IF keep
                     THEN /\ all_approved_questions' =
                                 Append(all_approved_questions,
                                        question_dict(question[1], args_difficulty, score, today))
                          /\ total_approved' = total_approved + 1
                     ELSE UNCHANGED <<all_approved_questions, total_approved>>
                  /\ pc' = "loop"
                  /\ exit_code' = exit_code
    /\ UNCHANGED <<min_score, args_difficulty, bank>>
    /\ UNCHANGED allocVars
    /\ UNCHANGED <<i, question, section_examples, total_generated>>
    /\ UNCHANGED <<scoreVars, retrieveVars, diverseVars, criticVars, genVars, ingestVars>>

\* main.py lines 197-228: evaluate, then keep the question when score >= min_score
EvaluateQuestion ==
    /\ pc = "evaluate"
    /\ \E response \in LoopResponses, today \in Dates :
         LET evaluation == evaluate_question(question[1], response)
             score == evaluation.score
             keep == MeetsMinimum(score, min_score)
         IN  /\ evaluations' = Append(evaluations,
                    [iteration |-> i, score |-> score,
                     approved |-> evaluation.approved, accepted |-> keep])
             /\ IF keep
                THEN /\ all_approved_questions' =
                            Append(all_approved_questions,
                                   question_dict(question[1], args_difficulty, score, today))
                     /\ total_approved' = total_approved + 1
                ELSE UNCHANGED <<all_approved_questions, total_approved>>
    /\ pc' = "loop"
    /\ UNCHANGED <<min_score, args_difficulty, bank, exit_code>>
    /\ UNCHANGED allocVars
    /\ UNCHANGED <<i, question, section_examples, total_generated>>
    /\ UNCHANGED <<scoreVars, retrieveVars, diverseVars, criticVars, genVars, ingestVars>>

(***************************************************************************)
(* Saving the bank, main.py lines 236-315.                                 *)
(***************************************************************************)
\* main.py lines 253-263: what is read from the existing file
ExistingQuestions(file) ==
    IF file.kind \in {"list", "dict_questions"} THEN file.items ELSE <<>>

\* the new questions are written in place of the bank
merge_replaces(existing_questions, new_questions) == new_questions

\* main.py line 266: all_questions = existing_questions + all_approved_questions
merge(existing_questions, new_questions) == existing_questions \o new_questions

\* the else branch of line 311 falls through to the final return 0
FinishNothingApproved_returnsZero ==
    /\ pc = "loop"
    /\ i = Len(section_assignments)
    /\ all_approved_questions = <<>>
    /\ pc' = "done"
    /\ exit_code' = 0
    /\ UNCHANGED <<min_score, args_difficulty, bank>>
    /\ UNCHANGED allocVars
    /\ UNCHANGED loopVars
    /\ UNCHANGED <<scoreVars, retrieveVars, diverseVars, criticVars, genVars, ingestVars>>

\* the loop is over and nothing was accepted: return 1
FinishNothingApproved ==
    /\ pc = "loop"
    /\ i = Len(section_assignments)
    /\ all_approved_questions = <<>>
    /\ pc' = "done"
    /\ exit_code' = 1
    /\ UNCHANGED <<min_score, args_difficulty, bank>>
    /\ UNCHANGED allocVars
    /\ UNCHANGED loopVars
    /\ UNCHANGED <<scoreVars, retrieveVars, diverseVars, criticVars, genVars, ingestVars>>

\* the loop is over and the merged bank is written: return 0
SaveBank ==
    /\ pc = "loop"
    /\ i = Len(section_assignments)
    /\ all_approved_questions # <<>>
    /\ bank' = [kind |-> "list",
                items |-> merge(ExistingQuestions(bank), all_approved_questions)]
    /\ pc' = "done"
    /\ exit_code' = 0
    /\ UNCHANGED <<min_score, args_difficulty>>
    /\ UNCHANGED allocVars
    /\ UNCHANGED loopVars
    /\ UNCHANGED <<scoreVars, retrieveVars, diverseVars, criticVars, genVars, ingestVars>>

\* open() or json.dump raised: the except branch returns 1.  open(.., 'w')
\* truncates the file before json.dump runs.
SaveFails ==
    /\ pc = "loop"
    /\ i = Len(section_assignments)
    /\ all_approved_questions # <<>>
    /\ \E truncated \in BOOLEAN :
           bank' = IF truncated THEN [kind |-> "unreadable", items |-> <<>>] ELSE bank
    /\ pc' = "done"
    /\ exit_code' = 1
    /\ UNCHANGED <<min_score, args_difficulty>>
    /\ UNCHANGED allocVars
    /\ UNCHANGED loopVars
    /\ UNCHANGED <<scoreVars, retrieveVars, diverseVars, criticVars, genVars, ingestVars>>

\* main.py line 249: output_path.parent.mkdir is outside the try; when it
\* raises the run ends with a traceback and a non-zero status
SaveCrashes ==
    /\ pc = "loop"
    /\ i = Len(section_assignments)
    /\ all_approved_questions # <<>>
    /\ pc' = "crashed"
    /\ exit_code' = 1
    /\ UNCHANGED <<min_score, args_difficulty, bank>>
    /\ UNCHANGED allocVars
    /\ UNCHANGED loopVars
    /\ UNCHANGED <<scoreVars, retrieveVars, diverseVars, criticVars, genVars, ingestVars>>

Next ==
    \/ Allocate
    \/ ShuffleStep
    \/ ShuffleDone
    \/ StyleExamplesRaise
    \/ GenerateFails
    \/ GenerateOk
    \/ EvaluateQuestion
    \/ FinishNothingApproved
    \/ SaveBank
    \/ SaveFails
    \/ SaveCrashes

Spec == Init /\ [][Next]_vars

\* main() is straight-line synchronous code: every step that can be taken is taken
FairSpec == Spec /\ WF_vars(Next)

\* the same run started without a bank file and with the default difficulty:
\* neither is read before the save step
InitBatch ==
    /\ num_questions \in 0..MaxQuestions
    /\ \E k \in 1..MaxSections : args_sections = SubSeq(AllSections, 1, k)
    /\ sections_to_use = args_sections
    /\ min_score \in MinScores
    /\ args_difficulty = "medium"
    /\ bank = [kind |-> "absent", items |-> <<>>]
    /\ InitCommon
    /\ InitIdle

\* the loop body is synchronous code: an iteration that can run does run
SpecBatch == InitBatch /\ [][Next]_vars /\ WF_vars(Next)

(***************************************************************************)
(* The allocation alone (main.py lines 76-101) over larger inputs.         *)
(***************************************************************************)
InitAlloc ==
    /\ num_questions \in 0..MaxItemCount
    /\ \E k \in 1..MaxSectionCount : args_sections = SubSeq(AllSections, 1, k)
    /\ sections_to_use = args_sections
    /\ min_score = ApprovalThreshold
    /\ args_difficulty = "medium"
    /\ bank = [kind |-> "absent", items |-> <<>>]
    /\ InitCommon
    /\ InitIdle

NextAlloc ==
    \/ Allocate
    \/ ShuffleStep
    \/ ShuffleDone

SpecAlloc == InitAlloc /\ [][NextAlloc]_vars


(***************************************************************************)
(* Vocabulary of the feedback loop, read off main()'s control flow.        *)
(***************************************************************************)
\* iterations whose evaluation came back approved
ApprovedIterations ==
    {evaluations[e].iteration : e \in {x \in DOMAIN evaluations : evaluations[x].approved}}

\* iterations whose candidate is part of what the run returns
AcceptedIterations ==
    {evaluations[e].iteration : e \in {x \in DOMAIN evaluations : evaluations[x].accepted}}

\* the earliest evaluation with the maximal score
EarliestBest ==
    CHOOSE e \in DOMAIN evaluations :
        /\ \A o \in DOMAIN evaluations : evaluations[o].score <= evaluations[e].score
        /\ \A o \in DOMAIN evaluations :
               evaluations[o].score = evaluations[e].score => e <= o

\* the for loop ran out of assignments (the only way main() leaves the loop)
\* and its last iteration was not an approved one
Exhausted ==
    /\ pc = "done"
    /\ i = Len(section_assignments)
    /\ i \notin ApprovedIterations

CountOf(seq, s) == Cardinality({j \in DOMAIN seq : seq[j] = s})

(***************************************************************************)
(* C1. Early stop: once an iteration's evaluation is approved no further   *)
(* iteration is started, and the run returns exactly that iteration's      *)
(* candidate (the caller's minimum not being stricter than the approval    *)
(* threshold).                                                             *)
(***************************************************************************)
C1_EarlyStopOnApproval ==
    \A a \in ApprovedIterations :
        /\ i = a
        /\ (pc = "done" /\ exit_code = 0 /\ min_score <= ApprovalThreshold)
               => AcceptedIterations = {a}

(***************************************************************************)
(* C2. Strict-greater tie-break: after a run none of whose iterations was  *)
(* approved, the returned best candidate is the candidate of the earliest  *)
(* iteration that attains the maximal score.                               *)
(***************************************************************************)
C2_BestIsEarliestMaximum ==
    (pc = "done" /\ evaluations # <<>> /\ ApprovedIterations = {})
        => AcceptedIterations = {evaluations[EarliestBest].iteration}

(***************************************************************************)
(* C3. A failed iteration (generation returned no question) adds no        *)
(* evaluation, leaves the accepted questions and both counters as they     *)
(* were, and leaves the loop at its next iteration.                        *)
(***************************************************************************)
C3_FailedIterationFrame ==
    [][(pc = "loop" /\ i' = i + 1 /\ question' = <<>>)
         => /\ evaluations' = evaluations
            /\ all_approved_questions' = all_approved_questions
            /\ total_generated' = total_generated
            /\ total_approved' = total_approved
            /\ pc' = "loop"
            /\ i' <= Len(section_assignments)]_vars

\* a failed second iteration after an accepted first one
C3_Witness ==
    /\ pc = "loop"
    /\ i = 2
    /\ question = <<>>
    /\ Len(evaluations) = 1
    /\ total_approved = 1
    /\ total_generated = 1

(***************************************************************************)
(* C4. Outcome: the run ends with nothing to return (Failed) exactly when  *)
(* every one of its iterations produced no question.                       *)
(***************************************************************************)
C4_FailedIffNothingGenerated ==
    pc = "done" => (all_approved_questions = <<>> <=> total_generated = 0)

(***************************************************************************)
(* C5. Termination: never more iterations than assignments, and the loop   *)
(* is exhausted only after exactly that many iterations none of which was  *)
(* approved.                                                               *)
(***************************************************************************)
C5_BoundedAndExhaustedUnapproved ==
    /\ i <= Len(section_assignments) \/ pc = "allocate"
    /\ Exhausted => ApprovedIterations = {}

(***************************************************************************)
(* C6. Allocation counts: the assignment list has num_questions entries    *)
(* and holds the idx-th given section floor(n/k) times, plus once more     *)
(* when idx < n mod k (0-based), before and throughout the shuffle; the    *)
(* allocation of n >= 1 questions never fails.                             *)
(***************************************************************************)
C6_AllocationCounts ==
    (pc # "allocate" /\ num_questions >= 1)
        => LET n == num_questions
               k == Len(args_sections)
           IN  /\ pc # "crashed"
               /\ Len(section_assignments) = n
               /\ \A idx \in 1..k :
                      CountOf(section_assignments, args_sections[idx])
                        = (n \div k) + (IF idx - 1 < n % k THEN 1 ELSE 0)

\* allocate(10, [A, B, C]) after a shuffle that changed the order
C6_Witness ==
    /\ pc = "loop"
    /\ num_questions = 10
    /\ args_sections = <<"A", "B", "C">>
    /\ section_assignments # DistributeQuestions(num_questions, sections_to_use)
    /\ CountOf(section_assignments, "A") = 4
    /\ CountOf(section_assignments, "B") = 3
    /\ CountOf(section_assignments, "C") = 3


(***************************************************************************)
(* Relevance scoring, ingest.py lines 31-83.                               *)
(***************************************************************************)
MaxMarks == 3
MaxExamQuestions == 2
DecayDays == 3650

DateFormats == <<"%B %d, %Y", "%b %d, %Y", "%Y-%m-%d", "%m/%d/%Y">>

\* days since 2000-01-01 of the dates an exam may carry, and of current_date
ExamDays == {0, 1825, 3650, 7300, 9125, 10950}
CurrentDays == {1825, 3651, 7300, 9125, 9490}

\* an exam date string: the format it is written in ("other" when it is in
\* none of the accepted ones) and the day it denotes
DateStrings ==
    {[format |-> DateFormats[f], day |-> d] : f \in DOMAIN DateFormats, d \in ExamDays}
        \cup {[format |-> "other", day |-> 9125]}

\* datetime(2000, 1, 1)
DefaultDate == 0

\* datetime.strptime(date_str, fmt): <<TRUE, day>>, or <<FALSE, 0>> for ValueError
strptime(date_str, fmt) ==
    IF date_str.format = fmt THEN <<TRUE, date_str.day>> ELSE <<FALSE, 0>>

\* parse_date: the first format that parses, else the default old date
RECURSIVE TryFormats(_, _)
TryFormats(date_str, f) ==
    IF f > Len(DateFormats) THEN DefaultDate
    ELSE IF strptime(date_str, DateFormats[f])[1] THEN strptime(date_str, DateFormats[f])[2]
    ELSE TryFormats(date_str, f + 1)

parse_date(date_str) == TryFormats(date_str, 1)

\* Exam.get_total_marks
RECURSIVE get_total_marks(_)
get_total_marks(marks) ==
    IF marks = <<>> THEN 0 ELSE Head(marks) + get_total_marks(Tail(marks))

\* rationals <<numerator, denominator>> with a positive denominator
RatLeq(a, b) == a[1] * b[2] <= b[1] * a[2]
RatEq(a, b) == a[1] * b[2] = b[1] * a[2]
RatMin(a, b) == IF RatLeq(a, b) THEN a ELSE b
RatMax(a, b) == IF RatLeq(b, a) THEN a ELSE b
RECURSIVE GCD(_, _)
GCD(a, b) == IF b = 0 THEN a ELSE GCD(b, a % b)
Abs(a) == IF a < 0 THEN 0 - a ELSE a
\* lowest terms (keeps the integers of the model small)
Normalize(a) ==
    LET g == GCD(Abs(a[1]), a[2])
    IN  <<a[1] \div g, a[2] \div g>>
RatAdd(a, b) == Normalize(<<a[1] * b[2] + b[1] * a[2], a[2] * b[2]>>)
RatMul(a, b) == Normalize(<<a[1] * b[1], a[2] * b[2]>>)

\* ingest.py lines 62-67
difficulty_score(marks, exam_total) ==
    IF exam_total = 0 THEN <<0, 1>>
    ELSE Normalize(RatMin(<<marks, exam_total>>, <<1, 1>>))

\* ingest.py lines 70-77.  parse_date swallows every parse failure and the
\* subtraction of two naive datetimes cannot raise, so the except branch
\* (date_score = 0.5) is not taken for any date string.
date_score(date_str, current_date) ==
    LET exam_date == parse_date(date_str)
        days_old == current_date - exam_date
    IN  Normalize(RatMax(<<0, 1>>, <<DecayDays - days_old, DecayDays>>))

\* the two weights exchanged
relevance_of_swappedWeights(difficulty, date) ==
    RatAdd(RatMul(<<4, 10>>, difficulty), RatMul(<<6, 10>>, date))

\* ingest.py line 81
relevance_of(difficulty, date) ==
    RatAdd(RatMul(<<6, 10>>, difficulty), RatMul(<<4, 10>>, date))

InitScore ==
    /\ pc = "score"
    /\ \E len \in 0..MaxExamQuestions :
         \E exam_marks \in [1..len -> 0..MaxMarks], marks \in 0..MaxMarks,
            date \in DateStrings, now \in CurrentDays :
              score_in = [exam_marks |-> exam_marks, marks |-> marks,
                          date |-> date, current_date |-> now]
    /\ score_out = <<>>
    /\ args_sections = <<>>
    /\ num_questions = 0
    /\ sections_to_use = <<>>
    /\ min_score = ApprovalThreshold
    /\ args_difficulty = "medium"
    /\ bank = [kind |-> "absent", items |-> <<>>]
    /\ section_assignments = <<>>
    /\ shuffle_i = 0
    /\ i = 0
    /\ question = <<>>
    /\ section_examples = <<>>
    /\ evaluations = <<>>
    /\ all_approved_questions = <<>>
    /\ total_generated = 0
    /\ total_approved = 0
    /\ exit_code = -1
    /\ collection = <<>>
    /\ retrieve_in = <<>>
    /\ index_query = <<>>
    /\ retrieve_out = <<>>
    /\ section_stats = <<>>
    /\ sec_idx = 0
    /\ all_results = <<>>
    /\ failures = 0
    /\ critic_in = <<>>
    /\ critic_out = <<>>
    /\ gen_in = <<>>
    /\ gen_out = <<>>
    /\ ingest_in = <<>>
    /\ ingest_log = <<>>

\* ingest.calculate_relevance_score(exam, question, current_date)
CalculateRelevanceScore ==
    /\ pc = "score"
    /\ LET exam_total == get_total_marks(score_in.exam_marks)
           d == difficulty_score(score_in.marks, exam_total)
           r == date_score(score_in.date, score_in.current_date)
       IN  score_out' = [difficulty_score |-> d, date_score |-> r,
                         relevance |-> relevance_of(d, r)]
    /\ pc' = "scored"
    /\ UNCHANGED <<min_score, args_difficulty, bank, exit_code, score_in>>
    /\ UNCHANGED allocVars
    /\ UNCHANGED loopVars
    /\ UNCHANGED <<retrieveVars, diverseVars, criticVars, genVars, ingestVars>>

NextScore == CalculateRelevanceScore

SpecScore == InitScore /\ [][NextScore]_vars

\* the age in days the scorer is given, for a date it can parse
Parsable(date_str) == \E f \in DOMAIN DateFormats : DateFormats[f] = date_str.format
AgeDays == score_in.current_date - score_in.date.day

(***************************************************************************)
(* C7. Range: the relevance score lies in [0, 1] for every input with      *)
(* marks >= 0 and exam total >= 0, ages below zero included, and a         *)
(* negative age gives a date component of exactly 1.                       *)
(***************************************************************************)
C7_ScoreInUnitInterval ==
    pc = "scored"
        => /\ RatLeq(<<0, 1>>, score_out.relevance)
           /\ RatLeq(score_out.relevance, <<1, 1>>)
           /\ (Parsable(score_in.date) /\ AgeDays < 0)
                 => RatEq(score_out.date_score, <<1, 1>>)

(***************************************************************************)
(* C8. Unparsable timestamp: when the date string is in none of the        *)
(* accepted formats the date component is 0.5 whatever current_date is,    *)
(* so marks equal to half the exam total score 0.5.                        *)
(***************************************************************************)
C8_UnparsableDateHalf ==
    (pc = "scored" /\ ~Parsable(score_in.date))
        => /\ RatEq(score_out.date_score, <<1, 2>>)
           /\ (get_total_marks(score_in.exam_marks) = 2 * score_in.marks
                 /\ score_in.marks > 0)
                 => RatEq(score_out.relevance, <<1, 2>>)

(***************************************************************************)
(* C9. Formula: for marks m >= 0, exam total T >= 0 and a parsable date of *)
(* age d >= 0 days, score = 0.6*D + 0.4*R with D = 0 when T = 0 and        *)
(* min(m/T, 1) otherwise, R = max(0, 1 - d/3650); compared in integers     *)
(* scaled by 36500*T (36500 when T = 0).                                   *)
(***************************************************************************)
C9_ScoreFormula ==
    (pc = "scored" /\ Parsable(score_in.date) /\ AgeDays >= 0)
        => LET m == score_in.marks
               T == get_total_marks(score_in.exam_marks)
               scale == IF T = 0 THEN 1 ELSE T
               D == IF T = 0 THEN 0 ELSE (IF m < T THEN m ELSE T)
               R == IF AgeDays >= 3650 THEN 0 ELSE 3650 - AgeDays
           IN  score_out.relevance
                 = Normalize(<<6 * 3650 * D + 4 * scale * R, 36500 * scale>>)

\* marks above the exam total (D capped at 1) and an age inside the decay window
C9_Witness ==
    /\ pc = "scored"
    /\ Parsable(score_in.date)
    /\ AgeDays = 1826
    /\ score_in.marks = 3
    /\ get_total_marks(score_in.exam_marks) = 2
    /\ score_out.date_score = Normalize(<<1824, 3650>>)
    /\ score_out.difficulty_score = <<1, 1>>


(***************************************************************************)
(* Section-scoped retrieval, retriever.py lines 61-177.  Relevance scores  *)
(* of stored records are kept in hundredths.  The distance order of the    *)
(* index for a query is an arbitrary ranking of the records.               *)
(***************************************************************************)
MaxRecords == 3
MaxExamples == 2

IndexSections == {"A", "B"}
StoredRelevance == {20, 50, 80}

\* the rankings of k records
Rankings(k) == {f \in [1..k -> 1..k] : \A a, b \in 1..k : f[a] = f[b] => a = b}

\* collection.query(query_embeddings, n_results, where): the n_results
\* nearest records among those matching the where clause
QueryIndex(ranking, n_results, where) ==
    LET ranked == [k \in 1..Len(collection) |->
                      [id |-> ranking[k],
                       section |-> collection[ranking[k]].section,
                       relevance_score |-> collection[ranking[k]].relevance_score]]
        Matches(r) == where = "" \/ r.section = where
        matching == SelectSeq(ranked, Matches)
    IN  SubSeq(matching, 1, Min(n_results, Len(matching)))

\* retriever.py lines 80-128: [] when the embedding or the query failed
\* (the index rejects n_results <= 0), else the records at or above min_relevance
retrieve_by_query(embed_ok, query_ok, ranking, n_results, section_filter, min_relevance) ==
    IF ~embed_ok THEN <<>>
    ELSE IF ~query_ok \/ n_results <= 0 THEN <<>>
    ELSE LET Relevant(r) == ~(r.relevance_score < min_relevance)
         IN  SelectSeq(QueryIndex(ranking, n_results, section_filter), Relevant)

\* sorted(results, key=relevance_score, reverse=True): stable
RECURSIVE InsertByRelevance(_, _)
InsertByRelevance(sorted, x) ==
    IF sorted = <<>> THEN <<x>>
    ELSE IF Head(sorted).relevance_score >= x.relevance_score
         THEN <<Head(sorted)>> \o InsertByRelevance(Tail(sorted), x)
         ELSE <<x>> \o sorted

\* reverse=True forgotten: the results are left in distance order
SortByRelevance_unsorted(results) == results

RECURSIVE SortByRelevance(_)
SortByRelevance(results) ==
    IF results = <<>> THEN <<>>
    ELSE InsertByRelevance(SortByRelevance(SubSeq(results, 1, Len(results) - 1)),
                           results[Len(results)])

\* results[:n]
Take(seq, n) == SubSeq(seq, 1, Min(Max(n, 0), Len(seq)))

InitRetrieve ==
    /\ pc = "retrieve"
    /\ \E len \in 0..MaxRecords :
           collection \in [1..len -> [section : IndexSections,
                                      relevance_score : StoredRelevance]]
    /\ retrieve_in \in [section : IndexSections, n_examples : 0..MaxExamples]
    /\ index_query = <<>>
    /\ retrieve_out = <<>>
    /\ score_in = <<>>
    /\ score_out = <<>>
    /\ args_sections = <<>>
    /\ num_questions = 0
    /\ sections_to_use = <<>>
    /\ min_score = ApprovalThreshold
    /\ args_difficulty = "medium"
    /\ bank = [kind |-> "absent", items |-> <<>>]
    /\ section_assignments = <<>>
    /\ shuffle_i = 0
    /\ i = 0
    /\ question = <<>>
    /\ section_examples = <<>>
    /\ evaluations = <<>>
    /\ all_approved_questions = <<>>
    /\ total_generated = 0
    /\ total_approved = 0
    /\ exit_code = -1
    /\ section_stats = <<>>
    /\ sec_idx = 0
    /\ all_results = <<>>
    /\ failures = 0
    /\ critic_in = <<>>
    /\ critic_out = <<>>
    /\ gen_in = <<>>
    /\ gen_out = <<>>
    /\ ingest_in = <<>>
    /\ ingest_log = <<>>

\* retrieve_style_examples(section, n_examples, ensure_diversity=False),
\* retriever.py lines 149-177
RetrieveForSection ==
    /\ pc = "retrieve"
    /\ \E embed_ok \in BOOLEAN, query_ok \in BOOLEAN,
          ranking \in Rankings(Len(collection)) :
         LET section == retrieve_in.section
             n == retrieve_in.n_examples
             results == retrieve_by_query(embed_ok, query_ok, ranking, n * 2, section, 0)
         IN  /\ index_query' =
                   IF embed_ok
                   THEN <<[n_results |-> n * 2, where |-> section, returned |-> results]>>
                   ELSE <<>>
             /\ retrieve_out' = Take(SortByRelevance(results), n)
    /\ pc' = "retrieved"
    /\ UNCHANGED <<min_score, args_difficulty, bank, exit_code, collection, retrieve_in>>
    /\ UNCHANGED allocVars
    /\ UNCHANGED loopVars
    /\ UNCHANGED <<scoreVars, diverseVars, criticVars, genVars, ingestVars>>

NextRetrieve == RetrieveForSection

SpecRetrieve == InitRetrieve /\ [][NextRetrieve]_vars

IdsOf(seq) == {seq[k].id : k \in DOMAIN seq}

(***************************************************************************)
(* C10. Section-scoped retrieval asks the index for 2n candidates of the   *)
(* requested section and returns at most n of them, all of that section,   *)
(* in non-increasing relevance order, and no candidate left out has a      *)
(* relevance strictly above that of a returned one.                        *)
(***************************************************************************)
C10_SectionScopedRetrieval ==
    pc = "retrieved"
        => LET n == retrieve_in.n_examples
               candidates == IF index_query = <<>> THEN <<>> ELSE index_query[1].returned
           IN  /\ index_query # <<>>
                     => /\ index_query[1].n_results = 2 * n
                        /\ index_query[1].where = retrieve_in.section
                        /\ Len(candidates) <= 2 * n
               /\ Len(retrieve_out) <= n
               /\ IdsOf(retrieve_out) \subseteq IdsOf(candidates)
               /\ Cardinality(IdsOf(retrieve_out)) = Len(retrieve_out)
               /\ \A k \in DOMAIN retrieve_out :
                      /\ retrieve_out[k].section = retrieve_in.section
                      /\ collection[retrieve_out[k].id].section = retrieve_in.section
                      /\ k > 1 => retrieve_out[k - 1].relevance_score
                                     >= retrieve_out[k].relevance_score
               /\ \A c \in DOMAIN candidates :
                      candidates[c].id \notin IdsOf(retrieve_out)
                          => \A k \in DOMAIN retrieve_out :
                                 candidates[c].relevance_score
                                     <= retrieve_out[k].relevance_score

\* two candidates of the section, the nearer one less relevant and left out,
\* in an index that also holds a record of another section
C10_Witness ==
    /\ pc = "retrieved"
    /\ retrieve_in.n_examples = 1
    /\ index_query # <<>>
    /\ Len(index_query[1].returned) = 2
    /\ Len(retrieve_out) = 1
    /\ index_query[1].returned[1].id # retrieve_out[1].id
    /\ index_query[1].returned[1].relevance_score < retrieve_out[1].relevance_score
    /\ \E r \in DOMAIN collection : collection[r].section # retrieve_in.section


(***************************************************************************)
(* Diverse retrieval: retrieve_style_examples(section=None, n_examples,    *)
(* ensure_diversity=True), retriever.py lines 178-217, over the section    *)
(* statistics of get_section_statistics, lines 219-229.                    *)
(***************************************************************************)
MaxIndexSections == 9
MaxIndexRecords == 10
MaxPerSection == 2
MaxExtra == 1
MaxDiverseExamples == 6

\* sections_list[:min(8, len(sections_list))], retriever.py line 187
SectionsQueried == 8
\* n_examples // min(5, len(sections_list)), retriever.py line 185
SectionDivisor == 5

SectionNames == <<"S1", "S2", "S3", "S4", "S5", "S6", "S7", "S8", "S9", "S10", "S11">>
DiverseCounts == {0, 2, MaxDiverseExamples}
RelevancePatterns == {"flat", "heavy_high", "heavy_low", "by_copy"}

\* the stored relevance of the copy-th record of section j
PatternRelevance(pattern, j, copy, heavy) ==
    CASE pattern = "flat" -> 50
      [] pattern = "heavy_high" -> IF j = heavy THEN 80 ELSE 20
      [] pattern = "heavy_low" -> IF j = heavy THEN 20 ELSE 80
      [] OTHER -> IF copy = 1 THEN 20 ELSE 80

\* an index of k sections scanned round-robin, per_section records each,
\* followed by extra more records of the section heavy
DiverseCollection(k, per_section, heavy, extra, pattern) ==
    [r \in 1..(k * per_section + extra) |->
        IF r <= k * per_section
        THEN LET j == ((r - 1) % k) + 1
                 copy == ((r - 1) \div k) + 1
             IN  [section |-> SectionNames[j],
                  relevance_score |-> PatternRelevance(pattern, j, copy, heavy)]
        ELSE [section |-> SectionNames[heavy],
              relevance_score |->
                  PatternRelevance(pattern, heavy, per_section + r - k * per_section, heavy)]]

\* get_section_statistics, retriever.py lines 219-229: a dict of counts,
\* its keys in the order the scan first met them
RECURSIVE CountSections(_, _)
CountSections(metadatas, upto) ==
    IF upto = 0 THEN <<>>
    ELSE LET stats == CountSections(metadatas, upto - 1)
             section == metadatas[upto].section
             known == {k \in DOMAIN stats : stats[k].section = section}
         IN  IF known = {}
             THEN Append(stats, [section |-> section, count |-> 1])
             ELSE [k \in DOMAIN stats |->
                      IF k \in known
                      THEN [section |-> section, count |-> stats[k].count + 1]
                      ELSE stats[k]]

get_section_statistics == CountSections(collection, Len(collection))

\* examples_per_section, retriever.py line 185
examples_per_section(n_examples, sections_list) ==
    Max(1, n_examples \div Min(SectionDivisor, Len(sections_list)))

\* every section keeps all its results: the [:examples_per_section] is dropped
SectionShare_uncapped(section_results, per_section) == section_results

\* section_results[:examples_per_section], retriever.py line 207
SectionShare(section_results, per_section) == Take(section_results, per_section)

\* the positions of the records of a section, in index order
PositionsOf(section) == {r \in DOMAIN collection : collection[r].section = section}

RECURSIVE SetToSeq(_)
SetToSeq(S) ==
    IF S = {} THEN <<>>
    ELSE LET m == CHOOSE x \in S : \A y \in S : x <= y
         IN  <<m>> \o SetToSeq(S \ {m})

\* the distance orders of the index that differ on the records of a section
SectionRankings(section) ==
    LET inside == PositionsOf(section)
        outside == SetToSeq(DOMAIN collection \ inside)
        m == Cardinality(inside)
    IN  {order \o outside :
            order \in {f \in [1..m -> inside] : \A a, b \in 1..m : a # b => f[a] # f[b]}}

IdleMain ==
    /\ score_in = <<>>
    /\ score_out = <<>>
    /\ args_sections = <<>>
    /\ num_questions = 0
    /\ sections_to_use = <<>>
    /\ min_score = ApprovalThreshold
    /\ args_difficulty = "medium"
    /\ bank = [kind |-> "absent", items |-> <<>>]
    /\ section_assignments = <<>>
    /\ shuffle_i = 0
    /\ i = 0
    /\ question = <<>>
    /\ section_examples = <<>>
    /\ evaluations = <<>>
    /\ all_approved_questions = <<>>
    /\ total_generated = 0
    /\ total_approved = 0
    /\ exit_code = -1

InitDiverse ==
    /\ pc = "diverse"
    /\ \/ collection = <<>>
       \/ \E k \in 1..MaxIndexSections, per_section \in 1..MaxPerSection,
             extra \in 0..MaxExtra, pattern \in RelevancePatterns :
             \E heavy \in 1..k :
                 /\ k * per_section + extra <= MaxIndexRecords
                 /\ collection = DiverseCollection(k, per_section, heavy, extra, pattern)
    /\ retrieve_in \in [section : {""}, n_examples : DiverseCounts]
    /\ index_query = <<>>
    /\ retrieve_out = <<>>
    /\ section_stats = <<>>
    /\ sec_idx = 0
    /\ all_results = <<>>
    /\ failures = 0
    /\ critic_in = <<>>
    /\ critic_out = <<>>
    /\ gen_in = <<>>
    /\ gen_out = <<>>
    /\ ingest_in = <<>>
    /\ ingest_log = <<>>
    /\ IdleMain

DiverseUnchanged ==
    /\ UNCHANGED <<min_score, args_difficulty, bank, exit_code, collection, retrieve_in>>
    /\ UNCHANGED allocVars
    /\ UNCHANGED loopVars
    /\ UNCHANGED <<scoreVars, criticVars, genVars, ingestVars>>

\* retriever.py lines 180-185: the statistics, the section list and the
\* per-section share; the scan of the index is not guarded, and neither is
\* the division by min(5, len(sections_list))
DiverseStart ==
    /\ pc = "diverse"
    /\ \E scan_ok \in BOOLEAN :
          IF ~scan_ok
          THEN /\ pc' = "raised"
               /\ failures' = failures + 1
               /\ section_stats' = section_stats
          ELSE /\ section_stats' = get_section_statistics
               /\ failures' = failures
               /\ pc' = IF Min(SectionDivisor, Len(get_section_statistics)) = 0
                        THEN "raised"
                        ELSE "diverse_loop"
    /\ UNCHANGED <<sec_idx, all_results, index_query, retrieve_out>>
    /\ DiverseUnchanged

\* retriever.py lines 187-207: one turn of the loop over the first sections;
\* the runs followed are those where at most one service call fails
DiverseQuery ==
    /\ pc = "diverse_loop"
    /\ sec_idx < Min(SectionsQueried, Len(section_stats))
    /\ LET sec == section_stats[sec_idx + 1].section
           per_section == examples_per_section(retrieve_in.n_examples, section_stats)
       IN  \E embed_ok \in BOOLEAN, query_ok \in BOOLEAN, ranking \in SectionRankings(sec) :
              /\ (embed_ok /\ query_ok) \/ failures = 0
              /\ embed_ok \/ query_ok
              /\ LET section_results ==
                         retrieve_by_query(embed_ok, query_ok, ranking, per_section * 2, sec, 0)
                 IN  /\ all_results' = all_results \o SectionShare(section_results, per_section)
                     /\ index_query' =
                            IF embed_ok
                            THEN Append(index_query, [n_results |-> per_section * 2,
                                                      where |-> sec,
                                                      returned |-> section_results])
                            ELSE index_query
              /\ failures' = IF embed_ok /\ query_ok THEN failures ELSE failures + 1
    /\ sec_idx' = sec_idx + 1
    /\ pc' = pc
    /\ UNCHANGED <<section_stats, retrieve_out>>
    /\ DiverseUnchanged

\* retriever.py lines 209-217: sort by relevance, keep the first n_examples
DiverseFinish ==
    /\ pc = "diverse_loop"
    /\ sec_idx = Min(SectionsQueried, Len(section_stats))
    /\ retrieve_out' = Take(SortByRelevance(all_results), retrieve_in.n_examples)
    /\ pc' = "retrieved_diverse"
    /\ UNCHANGED <<section_stats, sec_idx, all_results, failures, index_query>>
    /\ DiverseUnchanged

NextDiverse == DiverseStart \/ DiverseQuery \/ DiverseFinish

SpecDiverse == InitDiverse /\ [][NextDiverse]_vars

SectionsOf(seq) == {seq[k].section : k \in DOMAIN seq}

ContributionOf(section, seq) == Cardinality({k \in DOMAIN seq : seq[k].section = section})

(***************************************************************************)
(* C11. Diversity guarantee: over an index of k >= 2 populated sections    *)
(* and for n >= 2, when no service call failed, diverse retrieval returns  *)
(* at most n records, no section contributes more than                     *)
(* max(1, n div min(5, k)) of them, and at least two sections appear; with *)
(* k = 3, n = 6 and two or more records in every section all three appear. *)
(***************************************************************************)
C11_DiversityGuarantee ==
    (/\ pc = "retrieved_diverse"
     /\ failures = 0
     /\ Cardinality(SectionsOf(collection)) >= 2
     /\ retrieve_in.n_examples >= 2)
        => LET n == retrieve_in.n_examples
               k == Cardinality(SectionsOf(collection))
               share == IF n \div Min(5, k) >= 1 THEN n \div Min(5, k) ELSE 1
           IN  /\ Len(retrieve_out) <= n
               /\ Cardinality(IdsOf(retrieve_out)) = Len(retrieve_out)
               /\ \A s \in SectionsOf(collection) : ContributionOf(s, retrieve_out) <= share
               /\ Cardinality(SectionsOf(retrieve_out)) >= 2
               /\ (/\ k = 3
                   /\ n = 6
                   /\ \A s \in SectionsOf(collection) : ContributionOf(s, collection) >= 2)
                      => SectionsOf(retrieve_out) = SectionsOf(collection)

\* three unevenly populated sections, six examples asked: all three appear,
\* and the most populous one is held to its share of two
C11_Witness ==
    /\ pc = "retrieved_diverse"
    /\ failures = 0
    /\ retrieve_in.n_examples = 6
    /\ Cardinality(SectionsOf(collection)) = 3
    /\ \E s \in SectionsOf(collection) : ContributionOf(s, collection) = 3
    /\ Cardinality(SectionsOf(retrieve_out)) = 3
    /\ Len(retrieve_out) = 6
    /\ \A s \in SectionsOf(collection) : ContributionOf(s, retrieve_out) = 2

\* the number of records of a section in the index
ItemCount(section) == ContributionOf(section, collection)

(***************************************************************************)
(* C12. Over an index of more than 8 sections diverse retrieval queries    *)
(* the sections of highest item count, most populous first: 8 sections are *)
(* queried, their item counts never increase along the order of the        *)
(* queries, and no section left out holds more items than a queried one.   *)
(***************************************************************************)
C12_MostPopulousQueried ==
    (/\ pc = "retrieved_diverse"
     /\ failures = 0
     /\ Cardinality(SectionsOf(collection)) > SectionsQueried)
        => LET queried == [q \in DOMAIN index_query |-> index_query[q].where]
               asked == {queried[q] : q \in DOMAIN queried}
           IN  /\ Len(queried) = SectionsQueried
               /\ \A q \in DOMAIN queried :
                      q > 1 => ItemCount(queried[q - 1]) >= ItemCount(queried[q])
               /\ \A out \in SectionsOf(collection) \ asked :
                      \A s \in asked : ItemCount(out) <= ItemCount(s)

(***************************************************************************)
(* C13. Retriever error policy: diverse retrieval never raises, whatever   *)
(* the index holds (an index without any record included) and whichever    *)
(* service call fails; it returns a sequence, and a failed section yields  *)
(* nothing for that section only: every section whose query returned       *)
(* records is present in the accumulated results.                          *)
(***************************************************************************)
C13_RetrieverNeverRaises ==
    /\ pc # "raised"
    /\ pc \in {"diverse_loop", "retrieved_diverse"}
          => /\ \A q \in DOMAIN index_query :
                    index_query[q].returned # <<>>
                        => index_query[q].where \in SectionsOf(all_results)
             /\ SectionsOf(all_results) \subseteq
                    {index_query[q].where : q \in DOMAIN index_query}

(***************************************************************************)
(* The critic on its own: evaluate_question over every short critique, and *)
(* evaluate_exam, critic.py lines 126-167, over small exams.               *)
(***************************************************************************)
MaxExamItems == 3

\* abs(total_marks - 100) <= 10, critic.py line 156
MarkTarget == 100
MarkTolerance == 10

\* approval_rate >= 0.7, critic.py line 166
ExamApprovalRate == <<7, 10>>

ExamMarks == {25, 45, 50}
TargetMarks == {50, 100}

CritiqueTexts ==
    UNION {[1..n -> Tokens] : n \in 0..MaxTextLen} \cup {ExampleCritique}

Responses ==
    {Response("raised", <<>>, e) : e \in Errors}
        \cup {Response("unreadable", <<>>, e) : e \in Errors}
        \cup {Response("none", <<>>, "")}
        \cup {Response("text", t, "") : t \in CritiqueTexts}

\* the responses given to the questions of an exam
ExamResponses ==
    {r \in LoopResponses : r.kind = "raised" \/ parse_score(r.text) # DefaultScore}

ReferenceLists == {<<>>, <<[text |-> "r1", section |-> "A"]>>}

ExamQuestion(marks) ==
    [question_number |-> "", section |-> "A", marks |-> marks, text |-> "t1",
     answer_choices |-> "None", explanation |-> "None"]

\* the questions of an exam: questions carrying marks, and questions as
\* generate_question returns them
ExamItems ==
    {ExamQuestion(m) : m \in ExamMarks} \cup {GeneratedQuestion("A", t) : t \in Texts}

\* sum(...) over a sequence of numbers
RECURSIVE SumOver(_)
SumOver(numbers) ==
    IF numbers = <<>> THEN 0 ELSE Head(numbers) + SumOver(Tail(numbers))

\* critic.py lines 139-167; responses[k] is the answer of the service to the
\* evaluation of questions[k]
evaluate_exam(questions, responses) ==
    LET question_evaluations ==
            [k \in DOMAIN questions |-> evaluate_question(questions[k], responses[k])]
        n == Len(question_evaluations)
        total_score == SumOver([k \in 1..n |-> question_evaluations[k].score])
        avg_score == IF n > 0 THEN Normalize(<<total_score, n>>) ELSE <<0, 1>>
        approved_count ==
            SumOver([k \in 1..n |-> IF question_evaluations[k].approved THEN 1 ELSE 0])
        approval_rate == IF n > 0 THEN Normalize(<<approved_count, n>>) ELSE <<0, 1>>
        total_marks == SumOver([k \in DOMAIN questions |-> questions[k].marks])
        mark_distribution_ok == Abs(total_marks - MarkTarget) <= MarkTolerance
    IN  [overall_score |-> avg_score,
         approval_rate |-> approval_rate,
         approved_questions |-> approved_count,
         total_questions |-> Len(questions),
         mark_distribution_ok |-> mark_distribution_ok,
         total_marks |-> total_marks,
         question_evaluations |-> question_evaluations,
         exam_approved |-> RatLeq(ExamApprovalRate, approval_rate) /\ mark_distribution_ok]

InitCritic ==
    /\ \/ /\ pc = "critic_question"
          /\ critic_in \in [question : {GeneratedQuestion("A", t) : t \in Texts},
                            reference_questions : ReferenceLists,
                            response : Responses]
       \/ /\ pc = "critic_exam"
          /\ \E len \in 0..MaxExamItems :
                critic_in \in [questions : [1..len -> ExamItems],
                               responses : [1..len -> ExamResponses],
                               target_marks : TargetMarks]
    /\ critic_out = <<>>
    /\ gen_in = <<>>
    /\ gen_out = <<>>
    /\ ingest_in = <<>>
    /\ ingest_log = <<>>
    /\ collection = <<>>
    /\ retrieve_in = <<>>
    /\ index_query = <<>>
    /\ retrieve_out = <<>>
    /\ section_stats = <<>>
    /\ sec_idx = 0
    /\ all_results = <<>>
    /\ failures = 0
    /\ IdleMain

CriticUnchanged ==
    /\ UNCHANGED <<min_score, args_difficulty, bank, exit_code, critic_in>>
    /\ UNCHANGED allocVars
    /\ UNCHANGED loopVars
    /\ UNCHANGED <<scoreVars, retrieveVars, diverseVars, genVars, ingestVars>>

\* critic.evaluate_question(question, reference_questions)
CriticEvaluateQuestion ==
    /\ pc = "critic_question"
    /\ critic_out' = evaluate_question(critic_in.question, critic_in.response)
    /\ pc' = "critic_question_done"
    /\ CriticUnchanged

\* critic.evaluate_exam(exam, reference_questions)
CriticEvaluateExam ==
    /\ pc = "critic_exam"
    /\ critic_out' = evaluate_exam(critic_in.questions, critic_in.responses)
    /\ pc' = "critic_exam_done"
    /\ CriticUnchanged

NextCritic == CriticEvaluateQuestion \/ CriticEvaluateExam

SpecCritic == InitCritic /\ [][NextCritic]_vars

\* every match of every pattern, in pattern order and then in text order
RECURSIVE AllMatchesFrom(_, _)
AllMatchesFrom(text, p) ==
    IF p > Len(patterns) THEN <<>>
    ELSE findall(patterns[p], text) \o AllMatchesFrom(text, p + 1)

InRange(v) == 0 <= v /\ v <= MaxScore

(***************************************************************************)
(* C14. Score parsing: with every pattern yielding its matches in text     *)
(* order, the parsed score is the first match, in pattern order and then   *)
(* text order, whose value lies in [0, 10] (a match outside is passed over *)
(* for the next match), and 7.0 when no match qualifies; the critique      *)
(* "Overall quality score: 8/10" gives 8.0.                                *)
(***************************************************************************)
C14_FirstMatchInRange ==
    (pc = "critic_question_done" /\ critic_in.response.kind = "text")
        => LET text == critic_in.response.text
               qualifying == SelectSeq(AllMatchesFrom(text, 1), InRange)
           IN  /\ critic_out.score =
                      IF qualifying # <<>> THEN qualifying[1] ELSE DefaultScore
               /\ text = ExampleCritique => critic_out.score = 80

(***************************************************************************)
(* C15. Every evaluation returned by evaluate_question, on the normal, the *)
(* default-score and the degraded path alike, has a score in [0, 10] and   *)
(* is approved exactly when its score is at least 7.0.                     *)
(***************************************************************************)
C15_ScoreRangeAndApproval ==
    pc = "critic_question_done"
        => /\ 0 <= critic_out.score
           /\ critic_out.score <= 100
           /\ critic_out.approved <=> critic_out.score >= 70

\* the default-score path: a critique with an out-of-range number only is
\* scored 7.0, the threshold itself, and approved
C15_Witness ==
    /\ pc = "critic_question_done"
    /\ critic_in.response.kind = "text"
    /\ \E j \in DOMAIN critic_in.response.text :
           /\ critic_in.response.text[j].kind = "num"
           /\ critic_in.response.text[j].value = 150
    /\ findall(3, critic_in.response.text) = <<150>>
    /\ critic_out.score = 70
    /\ critic_out.approved

(***************************************************************************)
(* C16. evaluate_question never raises outward: when the service call, or  *)
(* the reading of its response, fails, the result is the degraded          *)
(* evaluation: score 5.0, not approved, the error description as feedback, *)
(* and the question that was passed in.                                    *)
(***************************************************************************)
C16_DegradedOnFailure ==
    /\ pc # "raised"
    /\ (pc = "critic_question_done" /\ critic_in.response.kind \in {"raised", "unreadable"})
          => /\ critic_out.score = 50
             /\ critic_out.approved = FALSE
             /\ critic_out.feedback.kind = "error"
             /\ critic_out.feedback.error = critic_in.response.error
             /\ critic_out.question = critic_in.question

\* the response of a call made with a reference question could not be read
C16_Witness ==
    /\ pc = "critic_question_done"
    /\ critic_in.response.kind = "unreadable"
    /\ critic_in.reference_questions # <<>>
    /\ critic_out.score = 50
    /\ critic_out.feedback.error = "timeout"

(***************************************************************************)
(* C17. Exam-level aggregation, for every exam and every target the caller *)
(* asked for: the overall score is the mean of the item scores and the     *)
(* approval rate approved/total (both 0 for an exam without items), the    *)
(* mark distribution is right exactly when the marks sum to within 10 of   *)
(* that target, and the exam is approved exactly when the approval rate is *)
(* at least 0.7 and the mark distribution is right.                        *)
(***************************************************************************)
C17_ExamAggregation ==
    pc = "critic_exam_done"
        => LET evals == critic_out.question_evaluations
               n == Len(evals)
               approved == Cardinality({k \in DOMAIN evals : evals[k].approved})
               marks == SumOver([k \in DOMAIN critic_in.questions |->
                                    critic_in.questions[k].marks])
               distance == IF marks >= critic_in.target_marks
                           THEN marks - critic_in.target_marks
                           ELSE critic_in.target_marks - marks
           IN  /\ n = Len(critic_in.questions)
               /\ critic_out.overall_score[1] * n
                      = SumOver([k \in 1..n |-> evals[k].score]) * critic_out.overall_score[2]
               /\ critic_out.approval_rate[1] * n
                      = approved * critic_out.approval_rate[2]
               /\ n = 0 => /\ critic_out.overall_score[1] = 0
                           /\ critic_out.approval_rate[1] = 0
               /\ critic_out.mark_distribution_ok <=> distance <= 10
               /\ critic_out.exam_approved
                      <=> /\ 10 * critic_out.approval_rate[1]
                                 >= 7 * critic_out.approval_rate[2]
                          /\ critic_out.mark_distribution_ok

(***************************************************************************)
(* The bank file, main.py lines 236-315.                                   *)
(***************************************************************************)
\* the step in which main() returns 0
SavedStep == pc = "loop" /\ pc' = "done" /\ exit_code' = 0

\* the evaluations whose question was kept, in order
AcceptedEvaluations ==
    LET Accepted(e) == e.accepted
    IN  SelectSeq(evaluations, Accepted)

(***************************************************************************)
(* C18. The merge is pure concatenation: the bank written is every item    *)
(* read from the existing file, in its order, followed by every newly      *)
(* accepted item in acceptance order; its length is the sum of the two     *)
(* lengths, and nothing is dropped or deduplicated.                        *)
(***************************************************************************)
C18_MergeIsConcatenation ==
    [][SavedStep
         => LET existing == ExistingQuestions(bank)
                new == all_approved_questions
                written == bank'.items
            IN  /\ bank'.kind = "list"
                /\ Len(written) = Len(existing) + Len(new)
                /\ \A k \in 1..Len(existing) : written[k] = existing[k]
                /\ \A k \in 1..Len(new) : written[Len(existing) + k] = new[k]]_vars

\* an accepted item identical to one already stored is written next to it
C18_Witness ==
    /\ pc = "done"
    /\ exit_code = 0
    /\ Len(bank.items) = 3
    /\ bank.items[1] = LegacyItem
    /\ bank.items[2] = StoredItem
    /\ bank.items[3] = StoredItem
    /\ Len(all_approved_questions) = 1

(***************************************************************************)
(* C19. Field normalization: every newly accepted item written to the bank *)
(* carries its section, its text, the difficulty of the run, the score of  *)
(* its own evaluation as quality_score and a generated_date, and carries   *)
(* neither question_number nor marks; the items already in the bank are    *)
(* written back as they were.                                              *)
(***************************************************************************)
C19_FieldNormalization ==
    [][SavedStep
         => LET existing == ExistingQuestions(bank)
                written == bank'.items
            IN  /\ Len(written) = Len(existing) + Len(AcceptedEvaluations)
                /\ \A k \in 1..Len(existing) : written[k] = existing[k]
                /\ \A k \in 1..Len(AcceptedEvaluations) :
                       LET item == written[Len(existing) + k]
                           own == AcceptedEvaluations[k]
                       IN  /\ {"section", "text", "difficulty", "quality_score",
                               "generated_date"} \subseteq DOMAIN item
                           /\ "question_number" \notin DOMAIN item
                           /\ "marks" \notin DOMAIN item
                           /\ item.section = section_assignments[own.iteration]
                           /\ item.text \in Texts
                           /\ item.difficulty = args_difficulty
                           /\ item.quality_score = own.score
                           /\ item.generated_date \in Dates]_vars

\* a hard run: an item scored 9.0, kept after an item scored 6.0, is written
\* behind a stored item that still has its question number and marks
C19_Witness ==
    /\ pc = "done"
    /\ exit_code = 0
    /\ args_difficulty = "hard"
    /\ min_score = 50
    /\ Len(bank.items) = 3
    /\ bank.items[1] = LegacyItem
    /\ "marks" \in DOMAIN bank.items[1]
    /\ bank.items[2].quality_score = 60
    /\ bank.items[3].quality_score = 90
    /\ bank.items[3].difficulty = "hard"

(***************************************************************************)
(* C20. Exit status: main() returns 0 exactly when at least one accepted   *)
(* item was written to the bank file successfully, and a non-zero status   *)
(* in every other case: nothing accepted, or the bank could not be saved.  *)
(***************************************************************************)
C20_ExitStatus ==
    [][(pc \notin {"done", "crashed"} /\ pc' \in {"done", "crashed"})
         => LET wrote == /\ all_approved_questions # <<>>
                         /\ bank' # bank
                         /\ bank' = [kind |-> "list",
                                     items |-> ExistingQuestions(bank)
                                                   \o all_approved_questions]
            IN  /\ exit_code' \in {0, 1}
                /\ exit_code' = 0 <=> wrote]_vars

\* an item was accepted but the bank could not be saved: status 1
C20_Witness ==
    /\ pc = "done"
    /\ exit_code = 1
    /\ total_approved = 1
    /\ all_approved_questions # <<>>
    /\ bank.kind = "unreadable"

(***************************************************************************)
(* C21. One bad item never aborts the batch: whatever per-item generation, *)
(* embedding, index-query and evaluation calls fail, the assignments are   *)
(* attempted one at a time in order (the position advances by exactly one  *)
(* per attempt and the assignment list is not touched), the loop is left   *)
(* only after the last assignment, the run always reaches the save step,   *)
(* and approved <= generated <= attempted <= N throughout.                 *)
(***************************************************************************)
InLoop == pc \in {"loop", "evaluate"}

AtSaveStep == pc = "loop" /\ i = Len(section_assignments)

C21_BatchNeverAborts ==
    /\ [](InLoop => /\ total_approved <= total_generated
                    /\ total_generated <= i
                    /\ i <= Len(section_assignments))
    /\ [][InLoop => /\ section_assignments' = section_assignments
                    /\ i' \in {i, i + 1}
                    /\ (pc = "loop" /\ ~AtSaveStep) => i' = i + 1
                    /\ pc = "evaluate" => (i' = i /\ pc' = "loop")
                    /\ ~InLoop' => AtSaveStep]_vars
    /\ InLoop ~> AtSaveStep

\* three assignments: a generation failed, an evaluation failed and was
\* scored as degraded, the last per-item retrieval came back empty, and the
\* run stands at the save step
C21_Witness ==
    /\ AtSaveStep
    /\ i = 3
    /\ total_generated = 2
    /\ section_examples = <<>>
    /\ \E k \in 1..Len(evaluations) :
           evaluations[k].score = DegradedScore /\ ~evaluations[k].approved

(***************************************************************************)
(* C22. An item is kept for the bank only if its evaluation approved it    *)
(* (score >= 7.0) and its score meets the caller's minimum: with a minimum *)
(* below 7.0, an item scored in [minimum, 7.0), the degraded 5.0 included, *)
(* is not kept.                                                            *)
(***************************************************************************)
C22_PersistOnlyApproved ==
    /\ \A k \in 1..Len(evaluations) :
           evaluations[k].accepted
               => /\ evaluations[k].approved
                  /\ evaluations[k].score >= min_score
    /\ \A k \in 1..Len(all_approved_questions) :
           /\ all_approved_questions[k].quality_score >= ApprovalThreshold
           /\ all_approved_questions[k].quality_score >= min_score

(***************************************************************************)
(* C23. When the existing bank file exists but cannot be read or parsed,   *)
(* the failure is surfaced: the run ends with a non-zero status and the    *)
(* file is left as it was instead of being saved over.                     *)
(***************************************************************************)
RunEnds == pc \notin {"done", "crashed"} /\ pc' \in {"done", "crashed"}

C23_UnreadableBankSurfaced ==
    [][(RunEnds /\ bank.kind = "unreadable")
         => (exit_code' # 0 /\ bank' = bank)]_vars

(***************************************************************************)
(* C24. Allocating zero questions over a non-empty list of sections        *)
(* completes without an error and yields the empty assignment list.        *)
(***************************************************************************)
C24_ZeroQuestionsAllocated ==
    (pc # "allocate" /\ num_questions = 0 /\ Len(args_sections) >= 1)
        => (pc # "crashed" /\ section_assignments = <<>>)

(***************************************************************************)
(* C29. The bank only grows: a run that ends with status 0 leaves a bank   *)
(* that begins with every record the file held before, in order; a run     *)
(* that ends with a non-zero status leaves the file as it was; whatever    *)
(* the file held (an array, an object, another shape, unreadable content). *)
(***************************************************************************)
\* the records a file holds, whatever its shape
PriorRecords(file) == file.items

C29_BankOnlyGrows ==
    [][RunEnds
         => IF exit_code' = 0
            THEN /\ bank.kind # "unreadable"
                 /\ Len(bank'.items) >= Len(PriorRecords(bank))
                 /\ SubSeq(bank'.items, 1, Len(PriorRecords(bank))) = PriorRecords(bank)
            ELSE bank' = bank]_vars


(***************************************************************************)
(* QuestionGenerator, generator.py lines 40-373.  A text is a sequence of  *)
(* tokens: words, the labels the parser looks for, a blank and a newline.  *)
(* A section name is a sequence of words, a leading blank being a token.   *)
(***************************************************************************)
MaxStyleExamples == 3
MaxResponseLen == 3

Whitespace == {" ", "\n"}

RECURSIVE lstrip(_)
lstrip(text) ==
    IF text # <<>> /\ Head(text) \in Whitespace THEN lstrip(Tail(text)) ELSE text

RECURSIVE rstrip(_)
rstrip(text) ==
    IF text # <<>> /\ text[Len(text)] \in Whitespace
    THEN rstrip(SubSeq(text, 1, Len(text) - 1))
    ELSE text

\* str.strip()
strip(text) == rstrip(lstrip(text))

\* the words that contain "Array", "Function" (as written) and "array",
\* "function" (after lower())
ArrayWords == {"Array", "Arrays"}
FunctionWords == {"Function", "Functions"}
ArrayFlavoured == {"Array", "Arrays", "array", "arrays"}
FunctionFlavoured == {"Function", "Functions", "function", "functions"}

\* some word of the name is one of the given words
HasWord(name, words) == \E k \in 1..Len(name) : name[k] \in words

\* "<first> Array" in name
HasPhrase(name, first, seconds) ==
    \E k \in 1..(Len(name) - 1) : name[k] = first /\ name[k + 1] \in seconds

\* generator.py lines 45-59
normalize_section_name(section) ==
    IF section = <<>> THEN <<>>
    ELSE LET normalized == strip(section)
         IN  IF HasPhrase(normalized, "1D", ArrayWords)
                    \/ HasPhrase(normalized, "1-D", ArrayWords)
             THEN <<"1D", "Arrays">>
             ELSE IF HasPhrase(normalized, "2D", ArrayWords)
                        \/ HasPhrase(normalized, "2-D", ArrayWords)
             THEN <<"2D", "Arrays">>
             ELSE IF HasWord(normalized, FunctionWords) /\ HasWord(normalized, ArrayWords)
             THEN <<"Functions", "and", "Arrays">>
             ELSE normalized

\* generator.py lines 61-75
are_sections_related(section1, section2) ==
    \/ HasWord(section1, ArrayFlavoured) /\ HasWord(section2, ArrayFlavoured)
    \/ HasWord(section1, FunctionFlavoured) /\ HasWord(section2, FunctionFlavoured)

\* generator.py lines 165-172: the list an example is appended to
ExampleClass(section, example) ==
    LET normalized_section == normalize_section_name(section)
        ex_normalized == normalize_section_name(example.section)
    IN  IF ex_normalized = normalized_section THEN "section_specific"
        ELSE IF are_sections_related(normalized_section, ex_normalized)
        THEN "related_examples"
        ELSE "other_examples"

\* the positions of the examples of one list, in the order of style_examples
PositionsInClass(section, style_examples, class) ==
    LET InClass(k) == ExampleClass(section, style_examples[k]) = class
    IN  SelectSeq([k \in 1..Len(style_examples) |-> k], InClass)

\* three same-section examples are shown, and the contrasting one comes first
examples_to_show_contrastFirst(section, style_examples) ==
    IF style_examples = <<>> THEN <<>>
    ELSE Take(PositionsInClass(section, style_examples, "other_examples"), 1)
            \o Take(PositionsInClass(section, style_examples, "section_specific"), 3)
            \o Take(PositionsInClass(section, style_examples, "related_examples"), 1)

\* generator.py lines 157-178: the positions in style_examples of the
\* examples to show
examples_to_show(section, style_examples) ==
    IF style_examples = <<>> THEN <<>>
    ELSE Take(PositionsInClass(section, style_examples, "section_specific"), 2)
            \o Take(PositionsInClass(section, style_examples, "related_examples"), 1)
            \o Take(PositionsInClass(section, style_examples, "other_examples"), 1)

\* generator.py line 180: enumerate(examples_to_show[:4], 1)
ShownExamples(section, style_examples) ==
    Take(examples_to_show(section, style_examples), 4)

\* text.split(delimiter)[-1]: what follows the last delimiter
RECURSIVE AfterLast(_, _)
AfterLast(text, delimiter) ==
    IF text = <<>> \/ text[Len(text)] = delimiter THEN <<>>
    ELSE Append(AfterLast(SubSeq(text, 1, Len(text) - 1), delimiter), text[Len(text)])

\* text.split("\n", 1)[-1]: what follows the first newline, or the whole
\* text when it has none
RECURSIVE AfterFirstNewline(_)
AfterFirstNewline(text) ==
    IF ~HasWord(text, {"\n"}) THEN text
    ELSE IF Head(text) = "\n" THEN Tail(text)
    ELSE AfterFirstNewline(Tail(text))

startswith(text, label) == text # <<>> /\ Head(text) = label

\* generator.py lines 213-225
parse_question_text(response_text) ==
    LET extracted ==
            IF HasWord(response_text, {"Text:"}) THEN strip(AfterLast(response_text, "Text:"))
            ELSE IF HasWord(response_text, {"text:"})
            THEN strip(AfterLast(response_text, "text:"))
            ELSE response_text
        cleaned == strip(extracted)
        unlabelled == IF startswith(cleaned, "Section:")
                      THEN strip(AfterFirstNewline(cleaned))
                      ELSE cleaned
    IN  IF startswith(unlabelled, "section:")
        THEN strip(AfterFirstNewline(unlabelled))
        ELSE unlabelled

\* the section names of the examples and of the requests
ExampleSectionNames ==
    { <<"1D", "Arrays">>, <<"1-D", "Array">>, <<"2D", "Arrays">>,
      <<"Functions">>, <<"Functions", "and", "Arrays">>,
      <<"Algorithms">>, <<" ", "Algorithms">> }

ResponseTokens == {"Section:", "section:", "Text:", "text:", "w", "\n", " "}

ResponseTexts == UNION {[1..n -> ResponseTokens] : n \in 0..MaxResponseLen}

StyleExampleLists ==
    UNION {[1..n -> [section : ExampleSectionNames]] : n \in 0..MaxStyleExamples}

\* what the chat service answers: it raises, or message.content is a text
ServiceResponse(kind, text) == [kind |-> kind, text |-> text]

\* generator.py lines 101-238: the examples shown in the prompt and the
\* question returned, None when anything in the try raised
generate_question(section, style_examples, response) ==
    [shown |-> ShownExamples(section, style_examples),
     returned |-> IF response.kind = "raised" THEN "None" ELSE "question",
     question |-> IF response.kind = "raised" THEN <<>>
                  ELSE <<GeneratedQuestion(section, strip(parse_question_text(response.text)))>>]

\* the parameters generate_question accepts by keyword
GenerateQuestionParams == {"section", "style_examples", "difficulty"}

\* generator.py lines 336-341: the keywords generate_exam calls it with
GenerateQuestionCall == {"section", "marks", "style_examples", "difficulty"}

DefaultExamSections ==
    <<"Program Comprehension", "Computation and Output", "1D Arrays", "2D Arrays",
      "Functions", "Algorithms", "Robot Programming">>

\* models.py lines 86-93: request.sections is a list of names, or the
\* default value 6 of the field
RequestSections ==
    { [is_list |-> FALSE, items |-> <<>>],
      [is_list |-> TRUE, items |-> <<>>],
      [is_list |-> TRUE, items |-> <<"A">>],
      [is_list |-> TRUE, items |-> <<"A", "B">>] }

\* request.num_questions: 0 stands for None as well (both are falsy at
\* line 259)
RequestCounts == {0 - 1, 0, 1, 2}

RequestMarks == {30, 100}

\* what retriever.get_section_statistics gives generate_exam
RetrieverKinds == {"none", "empty", "one_section", "raises"}

\* the arguments of one call: generate_question with every list of examples
\* and two responses, or with every response and two lists of examples, or
\* generate_exam
GeneratorInputs ==
    [op : {"generate_question"},
     section : ExampleSectionNames,
     style_examples : StyleExampleLists,
     response : {ServiceResponse("raised", <<>>),
                 ServiceResponse("text", <<"Text:", "w">>)}]
    \cup
    [op : {"generate_question"},
     section : {<<"1D", "Arrays">>},
     style_examples : {<<>>, <<[section |-> <<"1-D", "Array">>]>>},
     response : {ServiceResponse("text", t) : t \in ResponseTexts}]
    \cup
    [op : {"generate_exam"},
     num_questions : RequestCounts,
     target_marks : RequestMarks,
     sections : RequestSections,
     retriever : RetrieverKinds]

InitGenerator ==
    /\ pc = "generator"
    /\ gen_in \in GeneratorInputs
    /\ gen_out = <<>>
    /\ ingest_in = <<>>
    /\ ingest_log = <<>>
    /\ critic_in = <<>>
    /\ critic_out = <<>>
    /\ collection = <<>>
    /\ retrieve_in = <<>>
    /\ index_query = <<>>
    /\ retrieve_out = <<>>
    /\ section_stats = <<>>
    /\ sec_idx = 0
    /\ all_results = <<>>
    /\ failures = 0
    /\ IdleMain

GeneratorUnchanged ==
    /\ UNCHANGED <<min_score, args_difficulty, bank, exit_code, gen_in>>
    /\ UNCHANGED allocVars
    /\ UNCHANGED loopVars
    /\ UNCHANGED <<scoreVars, retrieveVars, diverseVars, criticVars, ingestVars>>

\* generator.generate_question(section, style_examples, difficulty)
GenerateQuestion ==
    /\ pc = "generator"
    /\ gen_in.op = "generate_question"
    /\ gen_out' = generate_question(gen_in.section, gen_in.style_examples, gen_in.response)
    /\ pc' = "generator_done"
    /\ GeneratorUnchanged

\* generator.py lines 259-263
ExamQuestionCount(request_count, target_marks) ==
    IF request_count # 0 THEN request_count ELSE Max(5, target_marks \div 15)

\* generator.py lines 299-303
ExamAssignments(n, sections) ==
    LET k == Len(sections)
        per_section == n \div k
    IN  [j \in 1..(k * Max(per_section, 0)) |-> sections[((j - 1) \div per_section) + 1]]
            \o [j \in 1..(n % k) |-> sections[j]]

\* the state of a generate_exam call
ExamState(position, n, assignments, questions, result) ==
    [position |-> position, num_questions |-> n, section_assignments |-> assignments,
     questions |-> questions, result |-> result]

\* generator.py lines 255-303: the question count, the sections and the
\* assignments.  The statistics scan is not guarded, and len(sections) of
\* the default value 6 of request.sections raises TypeError.
ExamStart ==
    /\ pc = "generator"
    /\ gen_in.op = "generate_exam"
    /\ LET n == ExamQuestionCount(gen_in.num_questions, gen_in.target_marks)
           requested == gen_in.sections
           falsy == requested.is_list /\ requested.items = <<>>
           from_retriever ==
               IF gen_in.retriever = "one_section" THEN <<"A">> ELSE <<>>
           sections ==
               IF ~falsy THEN requested.items
               ELSE IF from_retriever # <<>> THEN from_retriever
               ELSE DefaultExamSections
       IN  IF falsy /\ gen_in.retriever = "raises"
           THEN gen_out' = ExamState("raised", n, <<>>, <<>>, "Exception")
           ELSE IF ~requested.is_list
           THEN gen_out' = ExamState("raised", n, <<>>, <<>>, "TypeError")
           ELSE gen_out' = ExamState("loop", n, ExamAssignments(n, sections), <<>>, "")
    /\ pc' = IF gen_out'.position = "raised" THEN "generator_done" ELSE "generator_exam"
    /\ GeneratorUnchanged

\* generator.py lines 305-347, one iteration: the call of generate_question
\* is outside any try
ExamQuestionStep ==
    /\ pc = "generator_exam"
    /\ Len(gen_out.questions) < gen_out.num_questions
    /\ gen_out.position = "loop"
    /\ IF GenerateQuestionCall \subseteq GenerateQuestionParams
       THEN \E response \in {ServiceResponse("raised", <<>>),
                             ServiceResponse("text", <<"w">>)} :
               LET k == Len(gen_out.questions) + 1
                   generated == generate_question(gen_out.section_assignments[k],
                                                  <<>>, response)
               IN  /\ gen_out' = [gen_out EXCEPT !.questions =
                                      Append(@, [number |-> k, made |-> generated.question])]
                   /\ pc' = pc
       ELSE /\ gen_out' = [gen_out EXCEPT !.position = "raised", !.result = "TypeError"]
            /\ pc' = "generator_done"
    /\ GeneratorUnchanged

\* generator.py lines 349-373: None without a question, else the exam of
\* the questions generated, numbered by their iteration
ExamFinish ==
    /\ pc = "generator_exam"
    /\ Len(gen_out.questions) >= gen_out.num_questions
    /\ LET Made(q) == q.made # <<>>
           made == SelectSeq(gen_out.questions, Made)
       IN  gen_out' = [gen_out EXCEPT !.position = "returned",
                                      !.result = IF made = <<>> THEN "None"
                                                 ELSE "GeneratedExam"]
    /\ pc' = "generator_done"
    /\ GeneratorUnchanged

NextGenerator ==
    \/ GenerateQuestion
    \/ ExamStart
    \/ ExamQuestionStep
    \/ ExamFinish

SpecGenerator == InitGenerator /\ [][NextGenerator]_vars

(***************************************************************************)
(* C25. generate_exam returns an exam holding one question per successful  *)
(* assignment, in assignment order and numbered by position, or None; for  *)
(* every valid request, the default field values included, it does not     *)
(* raise.                                                                  *)
(***************************************************************************)
ValidRequest ==
    /\ gen_in.op = "generate_exam"
    /\ gen_in.num_questions >= 0
    /\ gen_in.retriever # "raises"

C25_ExamReturnedNotRaised ==
    (pc = "generator_done" /\ ValidRequest)
        => /\ gen_out.position = "returned"
           /\ gen_out.result \in {"None", "GeneratedExam"}
           /\ Len(gen_out.questions) = Max(gen_out.num_questions, 0)
           /\ \A k \in 1..Len(gen_out.questions) : gen_out.questions[k].number = k

(***************************************************************************)
(* C26. Exemplar selection: the examples shown are up to two of the        *)
(* requested (normalised) section, then at most one of a related section   *)
(* (both array-flavoured or both function-flavoured), then at most one of  *)
(* any other section, each taken in the order given; never more than four, *)
(* and a related or contrasting example never precedes a same-section one. *)
(***************************************************************************)
ClassRank(class) ==
    IF class = "section_specific" THEN 1 ELSE IF class = "related_examples" THEN 2 ELSE 3

ClassLimit(class) == IF class = "section_specific" THEN 2 ELSE 1

C27_ResponseParsing ==
    (pc = "generator_done" /\ gen_in.op = "generate_question"
        /\ gen_out.returned = "question")
        => LET response_text == gen_in.response.text
               text == gen_out.question[1].text
               delimited == HasWord(response_text, {"Text:", "text:"})
               labelled == \/ startswith(strip(response_text), "Section:")
                           \/ startswith(strip(response_text), "section:")
           IN  /\ gen_out.question[1].section = gen_in.section
               /\ ~startswith(text, "Section:")
               /\ (~delimited /\ ~labelled) => text = strip(response_text)

(***************************************************************************)
(* C28. Every generated question has marks 0, so the evaluation of an exam *)
(* made of generated questions reports a wrong mark distribution and does  *)
(* not approve the exam, whatever the scores of its questions.             *)
(***************************************************************************)
GeneratedItems == {GeneratedQuestion("A", t) : t \in Texts}

MaxRuns == 3
MaxBankQuestions == 2

DigitChars == <<"0", "1", "2", "3", "4", "5", "6", "7", "8", "9">>

\* str(n) of a natural number
RECURSIVE Digits(_)
Digits(n) ==
    IF n < 10 THEN <<DigitChars[n + 1]>>
    ELSE Append(Digits(n \div 10), DigitChars[(n % 10) + 1])

\* ingest.py line 186: f"exam_{exam_idx}_q_{q_idx}"
ExamId(exam_idx, q_idx) ==
    <<"exam_">> \o Digits(exam_idx) \o <<"_q_">> \o Digits(q_idx)

\* the id is made of the date and the position in the file alone
GeneratedId_withoutCount(generated_date, q_idx, count) ==
    <<"generated_">> \o generated_date \o <<"_">> \o Digits(q_idx)

\* add_to_vector_db.py line 107:
\* f"generated_{generated_date}_{q_idx}_{current_count + added_count}"
GeneratedId(generated_date, q_idx, count) ==
    <<"generated_">> \o generated_date \o <<"_">> \o Digits(q_idx)
        \o <<"_">> \o Digits(count)

\* the generated_date of the stored questions: main.py writes the day of
\* the run, "%Y-%m-%d"
GeneratedDate == <<"2025", "-", "01", "-", "01">>

\* a question of the bank file: with or without its text and section
BankQuestions ==
    { [has_text |-> TRUE, has_section |-> TRUE, generated_date |-> GeneratedDate],
      [has_text |-> FALSE, has_section |-> TRUE, generated_date |-> GeneratedDate],
      [has_text |-> TRUE, has_section |-> FALSE, generated_date |-> GeneratedDate] }

BankLists == UNION {[1..n -> BankQuestions] : n \in 0..MaxBankQuestions}

\* the number of questions of each exam of the question bank
ExamShapes == {<<n>> : n \in 1..MaxExamQuestions} \cup {<<1, 1>>}

IndexIdle(runs) ==
    [phase |-> "idle", runs |-> runs, exams |-> <<>>, exam_idx |-> 0, q_idx |-> 0,
     questions |-> <<>>, current_count |-> 0, added_count |-> 0]

InitIndex ==
    /\ pc = "index"
    /\ collection = [exists |-> FALSE, ids |-> <<>>]
    /\ ingest_in = IndexIdle(0)
    /\ ingest_log = <<>>
    /\ gen_in = <<>>
    /\ gen_out = <<>>
    /\ critic_in = <<>>
    /\ critic_out = <<>>
    /\ retrieve_in = <<>>
    /\ index_query = <<>>
    /\ retrieve_out = <<>>
    /\ section_stats = <<>>
    /\ sec_idx = 0
    /\ all_results = <<>>
    /\ failures = 0
    /\ IdleMain

IndexUnchanged ==
    /\ UNCHANGED <<pc, min_score, args_difficulty, bank, exit_code>>
    /\ UNCHANGED <<retrieve_in, index_query, retrieve_out>>
    /\ UNCHANGED allocVars
    /\ UNCHANGED loopVars
    /\ UNCHANGED <<scoreVars, diverseVars, criticVars, genVars>>

HasId(id) == \E k \in 1..Len(collection.ids) : collection.ids[k] = id

\* ingest.py lines 136-148: an existing collection is cleared with
\* collection.delete() inside a try, then create_collection is called;
\* the store decides whether delete() raises or clears the records and
\* whether the collection can be created again
IngestStart ==
    /\ pc = "index"
    /\ ingest_in.phase = "idle"
    /\ ingest_in.runs < MaxRuns
    /\ \E exams \in ExamShapes :
         LET started == [IndexIdle(ingest_in.runs + 1) EXCEPT
                             !.phase = "ingest", !.exams = exams]
         IN  IF collection.exists
             THEN \E outcome \in {"delete_raises", "cleared", "recreated"} :
                    /\ collection' = IF outcome = "delete_raises" THEN collection
                                     ELSE [exists |-> TRUE, ids |-> <<>>]
                    /\ ingest_in' = IF outcome = "recreated" THEN started
                                    ELSE IndexIdle(ingest_in.runs + 1)
             ELSE /\ collection' = [exists |-> TRUE, ids |-> <<>>]
                  /\ ingest_in' = started
    /\ UNCHANGED ingest_log
    /\ IndexUnchanged

\* the position after question q_idx of exam exam_idx
NextQuestion(state) ==
    IF state.q_idx + 1 < state.exams[state.exam_idx + 1]
    THEN [state EXCEPT !.q_idx = @ + 1]
    ELSE [state EXCEPT !.exam_idx = @ + 1, !.q_idx = 0]

\* ingest.py lines 160-209, one question: a failed embedding skips it, the
\* add is not guarded
IngestQuestion ==
    /\ pc = "index"
    /\ ingest_in.phase = "ingest"
    /\ ingest_in.exam_idx < Len(ingest_in.exams)
    /\ \E outcome \in {"embedding_failed", "added", "add_raises", "duplicate_ignored"} :
         LET question_id == ExamId(ingest_in.exam_idx, ingest_in.q_idx)
             present == HasId(question_id)
         IN  /\ outcome = "duplicate_ignored" => present
             /\ ingest_log' = IF outcome # "embedding_failed" /\ present
                              THEN Append(ingest_log, question_id) ELSE ingest_log
             /\ collection' = IF outcome = "added" /\ ~present
                              THEN [collection EXCEPT !.ids = Append(@, question_id)]
                              ELSE collection
             /\ ingest_in' = IF outcome = "add_raises" \/ (outcome = "added" /\ present)
                             THEN IndexIdle(ingest_in.runs)
                             ELSE NextQuestion(ingest_in)
    /\ IndexUnchanged

IngestFinish ==
    /\ pc = "index"
    /\ ingest_in.phase = "ingest"
    /\ ingest_in.exam_idx = Len(ingest_in.exams)
    /\ ingest_in' = IndexIdle(ingest_in.runs)
    /\ UNCHANGED <<collection, ingest_log>>
    /\ IndexUnchanged

\* add_to_vector_db.py lines 45-73: nothing to add or no collection returns
AddStart ==
    /\ pc = "index"
    /\ ingest_in.phase = "idle"
    /\ ingest_in.runs < MaxRuns
    /\ \E questions \in BankLists :
         ingest_in' = IF questions = <<>> \/ ~collection.exists
                      THEN IndexIdle(ingest_in.runs + 1)
                      ELSE [IndexIdle(ingest_in.runs + 1) EXCEPT
                                !.phase = "add", !.questions = questions,
                                !.current_count = Len(collection.ids)]
    /\ UNCHANGED <<collection, ingest_log>>
    /\ IndexUnchanged

\* add_to_vector_db.py lines 75-130, one question: missing fields and a
\* failed embedding skip it, an exception of collection.add is swallowed
AddQuestion ==
    /\ pc = "index"
    /\ ingest_in.phase = "add"
    /\ ingest_in.q_idx < Len(ingest_in.questions)
    /\ LET entry == ingest_in.questions[ingest_in.q_idx + 1]
           question_id == GeneratedId(entry.generated_date, ingest_in.q_idx,
                                      ingest_in.current_count + ingest_in.added_count)
           present == HasId(question_id)
       IN  IF ~entry.has_text \/ ~entry.has_section
           THEN /\ ingest_in' = [ingest_in EXCEPT !.q_idx = @ + 1]
                /\ UNCHANGED <<collection, ingest_log>>
           ELSE \E outcome \in {"embedding_failed", "added", "add_raises",
                                "duplicate_ignored"} :
                  /\ outcome = "duplicate_ignored" => present
                  /\ ingest_log' = IF outcome # "embedding_failed" /\ present
                                   THEN Append(ingest_log, question_id) ELSE ingest_log
                  /\ collection' = IF outcome = "added" /\ ~present
                                   THEN [collection EXCEPT !.ids = Append(@, question_id)]
                                   ELSE collection
                  /\ ingest_in' =
                       IF (outcome = "added" /\ ~present) \/ outcome = "duplicate_ignored"
                       THEN [ingest_in EXCEPT !.q_idx = @ + 1, !.added_count = @ + 1]
                       ELSE [ingest_in EXCEPT !.q_idx = @ + 1]
    /\ IndexUnchanged

AddFinish ==
    /\ pc = "index"
    /\ ingest_in.phase = "add"
    /\ ingest_in.q_idx = Len(ingest_in.questions)
    /\ ingest_in' = IndexIdle(ingest_in.runs)
    /\ UNCHANGED <<collection, ingest_log>>
    /\ IndexUnchanged

NextIndex ==
    \/ IngestStart
    \/ IngestQuestion
    \/ IngestFinish
    \/ AddStart
    \/ AddQuestion
    \/ AddFinish

SpecIndex == InitIndex /\ [][NextIndex]_vars

(***************************************************************************)
(* C30. The ids of the vector index stay unique across ingest runs and     *)
(* runs that add generated questions, the same bank file added twice       *)
(* included: no record is ever offered under an id the index already       *)
(* holds.  A skipped question (no text, no section, failed embedding)      *)
(* takes no step of the id counter: a record added gets the number of      *)
(* records held as its counter.                                            *)
(***************************************************************************)
C30_IndexIdsUnique ==
    /\ [](pc = "index"
            => /\ ingest_log = <<>>
               /\ \A j, k \in 1..Len(collection.ids) :
                      j # k => collection.ids[j] # collection.ids[k])
    /\ [][(pc = "index" /\ ingest_in.phase = "add" /\ ingest_in'.phase = "add")
            => LET entry == ingest_in.questions[ingest_in.q_idx + 1]
               IN  IF collection' = collection
                   THEN ingest_in'.added_count = ingest_in.added_count
                   ELSE /\ ingest_in'.added_count = ingest_in.added_count + 1
                        /\ collection'.ids
                             = Append(collection.ids,
                                      GeneratedId(entry.generated_date, ingest_in.q_idx,
                                                  Len(collection.ids)))]_vars

\* the same file of two questions added twice, the first question skipped
\* for its embedding in the second run: position 1 is held under two ids
C30_Witness ==
    /\ pc = "index"
    /\ ingest_in.phase = "idle"
    /\ \E c \in 0..MaxIndexRecords :
           /\ HasId(GeneratedId(GeneratedDate, 0, c))
           /\ HasId(GeneratedId(GeneratedDate, 1, c + 1))
           /\ HasId(GeneratedId(GeneratedDate, 1, c + 2))
           /\ ~HasId(GeneratedId(GeneratedDate, 0, c + 2))

=============================================================================
